---- MODULE Spec2Model ----
(***************************************************************************)
(* The writer-priority read-write lock of task3 (my_rwlock.c) and the      *)
(* threads that use it.  Every thread is at a position (pc) inside one of  *)
(* the lock functions or outside of them; the lock's four fields, its      *)
(* internal mutex and the waiter sets of its two condition variables are   *)
(* the shared state.                                                       *)
(***************************************************************************)
EXTENDS Integers, FiniteSets, Sequences, TLC

\* Number of worker threads that use the lock.
NThreads == 3

Threads == 1..NThreads

\* The main thread: it alone calls my_rwlock_init and my_rwlock_destroy.
Main == 0

Callers == {Main} \cup Threads

\* The two kinds of my_rwlock_t* a caller can pass: a null pointer, and &rwlock.
NULL == "NULL"
RWLOCK == "&rwlock"
Handles == {NULL, RWLOCK}

VARIABLES
    active_readers,     \* my_rwlock_t.active_readers
    waiting_readers,    \* my_rwlock_t.waiting_readers
    waiting_writers,    \* my_rwlock_t.waiting_writers
    writer_active,      \* my_rwlock_t.writer_active (int used as a flag)
    mutex,              \* my_rwlock_t.mutex: the set holding its owner, {} when free
    read_cond,          \* threads blocked in pthread_cond_wait(&read_cond)
    write_cond,         \* threads blocked in pthread_cond_wait(&write_cond)
    pc,                 \* position of each worker thread
    held,               \* access a worker was granted and has not yet given back
    arg,                \* the handle passed in each caller's latest call
    rv,                 \* <<value>> returned by each caller's latest call, <<>> while none
    main_pc             \* position of the main thread: "init", "run", "destroyed",
                        \* or "run_without_monitor" (init returned, mutex or
                        \* condition variable not created)

\* Largest key of the modelled key space (the program draws my_rand() % MAX_KEY).
MaxKey == 2

Keys == 0..MaxKey

\* Addresses malloc can return for list nodes: one per key the list can hold.
Nodes == 1..(MaxKey + 1)

\* The null pointer of struct list_node_s*.
NIL == 0

VARIABLES
    head,               \* struct list_node_s* head
    node_data,          \* ->data of the node at each address
    node_next,          \* ->next of the node at each address
    allocated,          \* addresses returned by malloc and not yet freed
    mem_error,          \* a freed or never allocated node was read or written
    last,               \* the latest list call of the sequential user, with the keys before it
    tick                \* flips at every list call of the sequential user

\* Largest thread_count, total_ops and inserts_in_main given to the driver.
MaxThreadCount == 2

MaxTotalOps == 3

MaxInsertsInMain == 1

\* The three classes of operation a worker draws from.
Ops == {"Member", "Insert", "Delete"}

VARIABLES
    thread_count,       \* int thread_count
    total_ops,          \* int total_ops
    inserts_in_main,    \* main's inserts_in_main
    main_at,            \* main's position in the driver
    main_i,             \* main's i
    attempts,           \* main's attempts
    count_mutex,        \* owner of count_mutex, {} when free
    member_count,       \* the global totals
    insert_count,
    delete_count,
    thread_at,          \* each worker's position in Thread_work
    work_i,             \* Thread_work's i
    which_op,           \* the class drawn for the current iteration
    val,                \* Thread_work's val
    found,              \* pred and curr of the Insert or Delete in progress
    my_member_count,    \* Thread_work's local counters
    my_insert_count,
    my_delete_count

\* Largest number of seconds the clock advances in a run, and largest number of
\* calls of my_rand followed.
MaxElapsed == 3

MaxDraws == 3

VARIABLES
    now,                \* the value time(NULL) returns, in seconds from the start
    seed,               \* each caller's unsigned seed as <<high, low>> halves of
                        \* 16 bits, <<>> before its initialisation
    rand_value,         \* the value the last call of my_rand returned
    rand_key,           \* the key made of it, my_rand(&seed) % MAX_KEY
    draws               \* number of calls of my_rand followed

fields == <<active_readers, waiting_readers, waiting_writers, writer_active>>
monitor == <<mutex, read_cond, write_cond>>
lockVars == <<active_readers, waiting_readers, waiting_writers, writer_active,
              mutex, read_cond, write_cond, pc, held, arg, rv, main_pc>>
heap == <<head, node_data, node_next, allocated, mem_error>>
listVars == <<head, node_data, node_next, allocated, mem_error, last, tick>>
inputs == <<thread_count, total_ops, inserts_in_main>>
totals == <<member_count, insert_count, delete_count>>
mainVars == <<main_at, main_i, attempts>>
locals == <<work_i, which_op, val, found, my_member_count, my_insert_count, my_delete_count>>
randVars == <<now, seed, rand_value, rand_key, draws>>
driverVars == <<inputs, mainVars, count_mutex, totals, thread_at, locals, randVars>>
vars == <<lockVars, listVars, driverVars>>

\* The values of one half of an unsigned: 16 bits.
Halves == 0..65535

high(x) == x \div 65536

low(x) == x % 65536

\* The conversion of a nonnegative long below 2^31 to unsigned.
to_unsigned(x) == <<high(x), low(x)>>

TypeOK ==
    /\ now \in 0..MaxElapsed
    /\ seed \in [Callers -> {<<>>} \cup (Halves \X Halves)]
    /\ rand_value \in Nat /\ rand_key \in Nat
    /\ draws \in 0..MaxDraws
    /\ active_readers \in Int /\ waiting_readers \in Int /\ waiting_writers \in Int
    /\ writer_active \in Int
    /\ mutex \subseteq Threads /\ Cardinality(mutex) <= 1
    /\ read_cond \subseteq Threads /\ write_cond \subseteq Threads
    /\ pc \in [Threads -> {"idle", "rd_lock", "rd_reg", "rd_test", "rd_wait", "rd_admit",
                           "rd_unlock", "wr_lock", "wr_reg", "wr_test", "wr_wait",
                           "wr_admit", "wr_unlock", "un_lock", "un_body", "un_unlock",
                           "rd_enter", "wr_enter", "un_wake_w", "un_wake_r"}]
    /\ held \in [Threads -> {"none", "read", "write"}]
    /\ arg \in [Callers -> Handles]
    /\ rv \in [Callers -> {<<>>, <<0>>, <<-1>>}]
    /\ main_pc \in {"init", "run", "destroyed", "run_without_monitor"}
    /\ head \in Nodes \cup {NIL}
    /\ node_data \in [Nodes -> Keys]
    /\ node_next \in [Nodes -> Nodes \cup {NIL}]
    /\ allocated \subseteq Nodes
    /\ mem_error \in BOOLEAN
    /\ tick \in BOOLEAN
    /\ thread_count \in 0..MaxThreadCount
    /\ total_ops \in 0..MaxTotalOps
    /\ inserts_in_main \in 0..MaxInsertsInMain
    /\ main_at \in {"input", "prepopulate", "init", "create", "join", "report", "destroy",
                    "done"}
    /\ main_i \in Nat /\ attempts \in Nat
    /\ count_mutex \subseteq Threads /\ Cardinality(count_mutex) <= 1
    /\ member_count \in Nat /\ insert_count \in Nat /\ delete_count \in Nat
    /\ thread_at \in [Threads -> {"unborn", "for", "locking", "modify", "unlock",
                                  "unlocking", "fold_lock", "fold", "fold_unlock", "exit"}]
    /\ work_i \in [Threads -> Nat]
    /\ which_op \in [Threads -> Ops \cup {"none"}]
    /\ val \in [Threads -> Keys]
    /\ found \in [Threads -> [pred : Nodes \cup {NIL}, curr : Nodes \cup {NIL},
                              bad : BOOLEAN]]
    /\ my_member_count \in [Threads -> Nat]
    /\ my_insert_count \in [Threads -> Nat]
    /\ my_delete_count \in [Threads -> Nat]

(***************************************************************************)
(* Before main calls my_rwlock_init: rwlock is a global object, so its     *)
(* fields are zero; no worker exists yet.  The list is empty (head = NULL) *)
(* and no node is allocated.                                               *)
(***************************************************************************)
NoScan == [pred |-> NIL, curr |-> NIL, bad |-> FALSE]

NoCall == [op |-> "none", value |-> 0, rv |-> 0, before |-> <<>>, prior |-> <<"none", 0>>]

InitRest ==
    /\ mutex = {} /\ read_cond = {} /\ write_cond = {}
    /\ pc = [t \in Threads |-> "idle"]
    /\ held = [t \in Threads |-> "none"]
    /\ arg = [c \in Callers |-> RWLOCK]
    /\ rv = [c \in Callers |-> <<>>]
    /\ main_pc = "init"
    /\ head = NIL
    /\ node_data = [n \in Nodes |-> 0]
    /\ node_next = [n \in Nodes |-> NIL]
    /\ allocated = {}
    /\ mem_error = FALSE
    /\ last = NoCall
    /\ tick = FALSE
    /\ thread_count = 0 /\ total_ops = 0 /\ inserts_in_main = 0
    /\ main_at = "input" /\ main_i = 0 /\ attempts = 0
    /\ count_mutex = {}
    /\ member_count = 0 /\ insert_count = 0 /\ delete_count = 0
    /\ thread_at = [t \in Threads |-> "unborn"]
    /\ work_i = [t \in Threads |-> 0]
    /\ which_op = [t \in Threads |-> "none"]
    /\ val = [t \in Threads |-> 0]
    /\ found = [t \in Threads |-> NoScan]
    /\ my_member_count = [t \in Threads |-> 0]
    /\ my_insert_count = [t \in Threads |-> 0]
    /\ my_delete_count = [t \in Threads |-> 0]
    /\ now = 0
    /\ rand_value = 0 /\ rand_key = 0 /\ draws = 0

\* main's unsigned seed = 1; the seed of a worker is a local variable of
\* Thread_work.
StartSeeds == [c \in Callers |-> IF c = Main THEN <<0, 1>> ELSE <<>>]

Init ==
    /\ active_readers = 0 /\ waiting_readers = 0 /\ waiting_writers = 0
    /\ writer_active = 0
    /\ InitRest
    /\ seed = StartSeeds

\* Largest absolute value of the stale contents of a my_rwlock_t that was not
\* zero-initialised before my_rwlock_init is called on it.
MaxGarbage == 1

GarbageValues == (0 - MaxGarbage)..MaxGarbage

\* my_rwlock_init called on memory of arbitrary content.
InitAnyMemory ==
    /\ active_readers \in GarbageValues /\ waiting_readers \in GarbageValues
    /\ waiting_writers \in GarbageValues /\ writer_active \in GarbageValues
    /\ InitRest
    /\ seed = StartSeeds

\* A call by c with handle h that returns v at once and touches nothing else.
ReturnAtOnce(c, h, v) ==
    /\ arg' = [arg EXCEPT ![c] = h]
    /\ rv' = [rv EXCEPT ![c] = <<v>>]

(***************************************************************************)
(* my_rwlock_init / my_rwlock_destroy, called by main.                     *)
(***************************************************************************)
\* Variant: my_rwlock_init that does not reset writer_active.
my_rwlock_init_keeps_flag(h) ==
    /\ main_pc = "init"
    /\ IF h = NULL
       THEN /\ ReturnAtOnce(Main, h, -1)
            /\ UNCHANGED <<fields, monitor, main_pc>>
       ELSE /\ mutex' = {} /\ read_cond' = {} /\ write_cond' = {}
            /\ active_readers' = 0
            /\ waiting_readers' = 0
            /\ waiting_writers' = 0
            /\ UNCHANGED writer_active
            /\ ReturnAtOnce(Main, h, 0)
            /\ main_pc' = "run"
    /\ UNCHANGED <<pc, held>>

my_rwlock_init(h) ==
    /\ main_pc = "init"
    /\ IF h = NULL
       THEN /\ ReturnAtOnce(Main, h, -1)
            /\ UNCHANGED <<fields, monitor, main_pc>>
       ELSE /\ mutex' = {} /\ read_cond' = {} /\ write_cond' = {}
            /\ active_readers' = 0
            /\ waiting_readers' = 0
            /\ waiting_writers' = 0
            /\ writer_active' = 0
            /\ ReturnAtOnce(Main, h, 0)
            /\ main_pc' = "run"
    /\ UNCHANGED <<pc, held>>

\* Every worker is outside the lock functions and holds nothing (all joined).
Quiescent == \A t \in Threads : pc[t] = "idle" /\ held[t] = "none"

my_rwlock_destroy(h) ==
    /\ main_pc = "run"
    /\ IF h = NULL
       THEN /\ ReturnAtOnce(Main, h, -1)
            /\ UNCHANGED main_pc
       ELSE /\ Quiescent
            /\ ReturnAtOnce(Main, h, 0)
            /\ main_pc' = "destroyed"
    /\ UNCHANGED <<fields, monitor, pc, held>>

(***************************************************************************)
(* pthread primitives.                                                     *)
(***************************************************************************)
\* pthread_cond_signal: unblocks one waiter when there is one.
cond_signal(waiters) ==
    IF waiters = {} THEN {waiters} ELSE {waiters \ {w} : w \in waiters}

\* pthread_cond_broadcast: unblocks every waiter.
cond_broadcast(waiters) == {{}}

\* pthread_cond_wait may return although nobody signalled.
spurious_wakeup(t) ==
    /\ t \in read_cond \cup write_cond
    /\ read_cond' = read_cond \ {t}
    /\ write_cond' = write_cond \ {t}
    /\ UNCHANGED <<fields, mutex, pc, held, arg, rv, main_pc>>

(***************************************************************************)
(* my_rwlock_rdlock                                                        *)
(***************************************************************************)
\* Variant: rdlock without the test of its argument.
rdlock_entry_no_null_check(t, h) ==
    /\ pc[t] = "idle"
    /\ arg' = [arg EXCEPT ![t] = h]
    /\ rv' = [rv EXCEPT ![t] = <<>>]
    /\ pc' = [pc EXCEPT ![t] = "rd_lock"]
    /\ UNCHANGED <<fields, monitor, held, main_pc>>

rdlock_entry(t, h) ==
    /\ pc[t] = "idle"
    /\ arg' = [arg EXCEPT ![t] = h]
    /\ IF h = NULL
       THEN /\ rv' = [rv EXCEPT ![t] = <<-1>>]
            /\ UNCHANGED pc
       ELSE /\ rv' = [rv EXCEPT ![t] = <<>>]
            /\ pc' = [pc EXCEPT ![t] = "rd_lock"]
    /\ UNCHANGED <<fields, monitor, held, main_pc>>

\* Variant: rdlock goes on without pthread_mutex_lock.
rdlock_mutex_lock_skipped(t) ==
    /\ pc[t] = "rd_lock"
    /\ pc' = [pc EXCEPT ![t] = "rd_reg"]
    /\ UNCHANGED <<fields, monitor, held, arg, rv, main_pc>>

rdlock_mutex_lock(t) ==
    /\ pc[t] = "rd_lock"
    /\ mutex = {}
    /\ mutex' = {t}
    /\ pc' = [pc EXCEPT ![t] = "rd_reg"]
    /\ UNCHANGED <<fields, read_cond, write_cond, held, arg, rv, main_pc>>

rdlock_register(t) ==
    /\ pc[t] = "rd_reg"
    /\ mutex = {t}
    /\ waiting_readers' = waiting_readers + 1
    /\ pc' = [pc EXCEPT ![t] = "rd_test"]
    /\ UNCHANGED <<active_readers, waiting_writers, writer_active, monitor, held, arg, rv,
                   main_pc>>

\* Variant: a reader only waits for the active writer, not for waiting writers.
rdlock_must_wait_no_priority == writer_active # 0

\* Variant: a reader also waits for the other readers.
rdlock_must_wait_exclusive ==
    writer_active # 0 \/ waiting_writers > 0 \/ active_readers > 0

\* The loop condition of rdlock: the reader has to wait.
rdlock_must_wait == writer_active # 0 \/ waiting_writers > 0

rdlock_test(t) ==
    /\ pc[t] = "rd_test"
    /\ mutex = {t}
    /\ IF rdlock_must_wait
       THEN /\ mutex' = {}
            /\ read_cond' = read_cond \cup {t}
            /\ pc' = [pc EXCEPT ![t] = "rd_wait"]
       ELSE /\ pc' = [pc EXCEPT ![t] = "rd_admit"]
            /\ UNCHANGED <<mutex, read_cond>>
    /\ UNCHANGED <<fields, write_cond, held, arg, rv, main_pc>>

\* Variant: the wait of rdlock is an if, not a loop.
rdlock_cond_return_no_retest(t) ==
    /\ pc[t] = "rd_wait"
    /\ t \notin read_cond
    /\ mutex = {}
    /\ mutex' = {t}
    /\ pc' = [pc EXCEPT ![t] = "rd_admit"]
    /\ UNCHANGED <<fields, read_cond, write_cond, held, arg, rv, main_pc>>

\* pthread_cond_wait returns: the thread was unblocked and re-acquires the mutex.
rdlock_cond_return(t) ==
    /\ pc[t] = "rd_wait"
    /\ t \notin read_cond
    /\ mutex = {}
    /\ mutex' = {t}
    /\ pc' = [pc EXCEPT ![t] = "rd_test"]
    /\ UNCHANGED <<fields, read_cond, write_cond, held, arg, rv, main_pc>>

rdlock_admit(t) ==
    /\ pc[t] = "rd_admit"
    /\ mutex = {t}
    /\ waiting_readers' = waiting_readers - 1
    /\ active_readers' = active_readers + 1
    /\ pc' = [pc EXCEPT ![t] = "rd_unlock"]
    /\ UNCHANGED <<waiting_writers, writer_active, monitor, held, arg, rv, main_pc>>

rdlock_return(t) ==
    /\ pc[t] = "rd_unlock"
    /\ mutex = {t}
    /\ mutex' = {}
    /\ pc' = [pc EXCEPT ![t] = "idle"]
    /\ held' = [held EXCEPT ![t] = "read"]
    /\ rv' = [rv EXCEPT ![t] = <<0>>]
    /\ UNCHANGED <<fields, read_cond, write_cond, arg, main_pc>>

(***************************************************************************)
(* my_rwlock_wrlock                                                        *)
(***************************************************************************)
wrlock_entry(t, h) ==
    /\ pc[t] = "idle"
    /\ arg' = [arg EXCEPT ![t] = h]
    /\ IF h = NULL
       THEN /\ rv' = [rv EXCEPT ![t] = <<-1>>]
            /\ UNCHANGED pc
       ELSE /\ rv' = [rv EXCEPT ![t] = <<>>]
            /\ pc' = [pc EXCEPT ![t] = "wr_lock"]
    /\ UNCHANGED <<fields, monitor, held, main_pc>>

wrlock_mutex_lock(t) ==
    /\ pc[t] = "wr_lock"
    /\ mutex = {}
    /\ mutex' = {t}
    /\ pc' = [pc EXCEPT ![t] = "wr_reg"]
    /\ UNCHANGED <<fields, read_cond, write_cond, held, arg, rv, main_pc>>

wrlock_register(t) ==
    /\ pc[t] = "wr_reg"
    /\ mutex = {t}
    /\ waiting_writers' = waiting_writers + 1
    /\ pc' = [pc EXCEPT ![t] = "wr_test"]
    /\ UNCHANGED <<active_readers, waiting_readers, writer_active, monitor, held, arg, rv,
                   main_pc>>

\* Variant: a writer does not wait for the active readers.
wrlock_must_wait_ignores_readers == writer_active # 0

\* Variant: a writer does not wait for the active writer.
wrlock_must_wait_ignores_writer == active_readers > 0

\* The loop condition of wrlock: the writer has to wait.
wrlock_must_wait == active_readers > 0 \/ writer_active # 0

wrlock_test(t) ==
    /\ pc[t] = "wr_test"
    /\ mutex = {t}
    /\ IF wrlock_must_wait
       THEN /\ mutex' = {}
            /\ write_cond' = write_cond \cup {t}
            /\ pc' = [pc EXCEPT ![t] = "wr_wait"]
       ELSE /\ pc' = [pc EXCEPT ![t] = "wr_admit"]
            /\ UNCHANGED <<mutex, write_cond>>
    /\ UNCHANGED <<fields, read_cond, held, arg, rv, main_pc>>

wrlock_cond_return(t) ==
    /\ pc[t] = "wr_wait"
    /\ t \notin write_cond
    /\ mutex = {}
    /\ mutex' = {t}
    /\ pc' = [pc EXCEPT ![t] = "wr_test"]
    /\ UNCHANGED <<fields, read_cond, write_cond, held, arg, rv, main_pc>>

wrlock_admit(t) ==
    /\ pc[t] = "wr_admit"
    /\ mutex = {t}
    /\ waiting_writers' = waiting_writers - 1
    /\ writer_active' = 1
    /\ pc' = [pc EXCEPT ![t] = "wr_unlock"]
    /\ UNCHANGED <<active_readers, waiting_readers, monitor, held, arg, rv, main_pc>>

wrlock_return(t) ==
    /\ pc[t] = "wr_unlock"
    /\ mutex = {t}
    /\ mutex' = {}
    /\ pc' = [pc EXCEPT ![t] = "idle"]
    /\ held' = [held EXCEPT ![t] = "write"]
    /\ rv' = [rv EXCEPT ![t] = <<0>>]
    /\ UNCHANGED <<fields, read_cond, write_cond, arg, main_pc>>

(***************************************************************************)
(* my_rwlock_unlock                                                        *)
(***************************************************************************)
unlock_entry(t, h) ==
    /\ pc[t] = "idle"
    /\ arg' = [arg EXCEPT ![t] = h]
    /\ IF h = NULL
       THEN /\ rv' = [rv EXCEPT ![t] = <<-1>>]
            /\ UNCHANGED pc
       ELSE /\ rv' = [rv EXCEPT ![t] = <<>>]
            /\ pc' = [pc EXCEPT ![t] = "un_lock"]
    /\ UNCHANGED <<fields, monitor, held, main_pc>>

unlock_mutex_lock(t) ==
    /\ pc[t] = "un_lock"
    /\ mutex = {}
    /\ mutex' = {t}
    /\ pc' = [pc EXCEPT ![t] = "un_body"]
    /\ UNCHANGED <<fields, read_cond, write_cond, held, arg, rv, main_pc>>

\* Variant: a writer that leaves with no writer waiting signals one reader only.
unlock_body_signals_one_reader(t) ==
    /\ pc[t] = "un_body"
    /\ mutex = {t}
    /\ IF writer_active # 0
       THEN /\ writer_active' = 0
            /\ IF waiting_writers > 0
               THEN /\ write_cond' \in cond_signal(write_cond)
                    /\ UNCHANGED read_cond
               ELSE /\ read_cond' \in cond_signal(read_cond)
                    /\ UNCHANGED write_cond
            /\ UNCHANGED active_readers
       ELSE IF active_readers > 0
       THEN /\ active_readers' = active_readers - 1
            /\ IF active_readers' = 0 /\ waiting_writers > 0
               THEN write_cond' \in cond_signal(write_cond)
               ELSE UNCHANGED write_cond
            /\ UNCHANGED <<writer_active, read_cond>>
       ELSE UNCHANGED <<active_readers, writer_active, read_cond, write_cond>>
    /\ pc' = [pc EXCEPT ![t] = "un_unlock"]
    /\ UNCHANGED <<waiting_readers, waiting_writers, mutex, held, arg, rv, main_pc>>

\* Variant: unlock de-registers the writer it signals.
unlock_body_deregisters(t) ==
    /\ pc[t] = "un_body"
    /\ mutex = {t}
    /\ IF writer_active # 0
       THEN /\ writer_active' = 0
            /\ IF waiting_writers > 0
               THEN /\ write_cond' \in cond_signal(write_cond)
                    /\ waiting_writers' = waiting_writers - 1
                    /\ UNCHANGED read_cond
               ELSE /\ read_cond' \in cond_broadcast(read_cond)
                    /\ UNCHANGED <<write_cond, waiting_writers>>
            /\ UNCHANGED active_readers
       ELSE IF active_readers > 0
       THEN /\ active_readers' = active_readers - 1
            /\ IF active_readers' = 0 /\ waiting_writers > 0
               THEN write_cond' \in cond_signal(write_cond)
               ELSE UNCHANGED write_cond
            /\ UNCHANGED <<writer_active, read_cond, waiting_writers>>
       ELSE UNCHANGED <<active_readers, writer_active, read_cond, write_cond,
                        waiting_writers>>
    /\ pc' = [pc EXCEPT ![t] = "un_unlock"]
    /\ UNCHANGED <<waiting_readers, mutex, held, arg, rv, main_pc>>

\* Variant: the last reader leaves without signalling the waiting writer.
unlock_body_reader_no_signal(t) ==
    /\ pc[t] = "un_body"
    /\ mutex = {t}
    /\ IF writer_active # 0
       THEN /\ writer_active' = 0
            /\ IF waiting_writers > 0
               THEN /\ write_cond' \in cond_signal(write_cond)
                    /\ UNCHANGED read_cond
               ELSE /\ read_cond' \in cond_broadcast(read_cond)
                    /\ UNCHANGED write_cond
            /\ UNCHANGED active_readers
       ELSE IF active_readers > 0
       THEN /\ active_readers' = active_readers - 1
            /\ UNCHANGED <<writer_active, read_cond, write_cond>>
       ELSE UNCHANGED <<active_readers, writer_active, read_cond, write_cond>>
    /\ pc' = [pc EXCEPT ![t] = "un_unlock"]
    /\ UNCHANGED <<waiting_readers, waiting_writers, mutex, held, arg, rv, main_pc>>

\* The if / else-if of unlock, executed with the mutex held.
\* Variant: the reader's branch is taken without the test active_readers > 0.
unlock_body_no_reader_test(t) ==
    /\ pc[t] = "un_body"
    /\ mutex = {t}
    /\ IF writer_active # 0
       THEN /\ writer_active' = 0
            /\ IF waiting_writers > 0
               THEN /\ write_cond' \in cond_signal(write_cond)
                    /\ UNCHANGED read_cond
               ELSE /\ read_cond' \in cond_broadcast(read_cond)
                    /\ UNCHANGED write_cond
            /\ UNCHANGED active_readers
       ELSE /\ active_readers' = active_readers - 1
            /\ IF active_readers' = 0 /\ waiting_writers > 0
               THEN write_cond' \in cond_signal(write_cond)
               ELSE UNCHANGED write_cond
            /\ UNCHANGED <<writer_active, read_cond>>
    /\ pc' = [pc EXCEPT ![t] = "un_unlock"]
    /\ UNCHANGED <<waiting_readers, waiting_writers, mutex, held, arg, rv, main_pc>>

unlock_body(t) ==
    /\ pc[t] = "un_body"
    /\ mutex = {t}
    /\ IF writer_active # 0
       THEN /\ writer_active' = 0
            /\ IF waiting_writers > 0
               THEN /\ write_cond' \in cond_signal(write_cond)
                    /\ UNCHANGED read_cond
               ELSE /\ read_cond' \in cond_broadcast(read_cond)
                    /\ UNCHANGED write_cond
            /\ UNCHANGED active_readers
       ELSE IF active_readers > 0
       THEN /\ active_readers' = active_readers - 1
            /\ IF active_readers' = 0 /\ waiting_writers > 0
               THEN write_cond' \in cond_signal(write_cond)
               ELSE UNCHANGED write_cond
            /\ UNCHANGED <<writer_active, read_cond>>
       ELSE UNCHANGED <<active_readers, writer_active, read_cond, write_cond>>
    /\ pc' = [pc EXCEPT ![t] = "un_unlock"]
    /\ UNCHANGED <<waiting_readers, waiting_writers, mutex, held, arg, rv, main_pc>>

unlock_return(t) ==
    /\ pc[t] = "un_unlock"
    /\ mutex = {t}
    /\ mutex' = {}
    /\ pc' = [pc EXCEPT ![t] = "idle"]
    /\ held' = [held EXCEPT ![t] = "none"]
    /\ rv' = [rv EXCEPT ![t] = <<0>>]
    /\ UNCHANGED <<fields, read_cond, write_cond, arg, main_pc>>

(***************************************************************************)
(* Users of the lock.                                                      *)
(***************************************************************************)
\* A worker exists between pthread_create (after init) and the teardown.
Running == main_pc = "run"

\* Protocol-respecting use: acquire while holding nothing, release what is held.
AcquireRead(t) == Running /\ held[t] = "none" /\ rdlock_entry(t, RWLOCK)

AcquireWrite(t) == Running /\ held[t] = "none" /\ wrlock_entry(t, RWLOCK)

Release(t) == Running /\ held[t] # "none" /\ unlock_entry(t, RWLOCK)

\* Steps a thread takes while it owns the mutex.
InsideStep(t) ==
    \/ rdlock_register(t)
    \/ rdlock_test(t)
    \/ rdlock_admit(t)
    \/ rdlock_return(t)
    \/ wrlock_register(t)
    \/ wrlock_test(t)
    \/ wrlock_admit(t)
    \/ wrlock_return(t)
    \/ unlock_body(t)
    \/ unlock_return(t)

\* Steps in which a thread obtains the mutex.
MutexStep(t) ==
    \/ rdlock_mutex_lock(t)
    \/ rdlock_cond_return(t)
    \/ wrlock_mutex_lock(t)
    \/ wrlock_cond_return(t)
    \/ unlock_mutex_lock(t)

LockStep(t) == InsideStep(t) \/ MutexStep(t) \/ spurious_wakeup(t)

MainStep == my_rwlock_init(RWLOCK) \/ my_rwlock_destroy(RWLOCK)

\* A step of the lock and its users leaves the list alone.
LockOnly == UNCHANGED <<listVars, driverVars>>

Next ==
    \/ (MainStep /\ LockOnly)
    \/ \E t \in Threads :
          (AcquireRead(t) \/ AcquireWrite(t) \/ Release(t) \/ LockStep(t)) /\ LockOnly

Spec == Init /\ [][Next]_vars

SpecAnyMemory == InitAnyMemory /\ [][Next]_vars

(***************************************************************************)
(* Use of the lock outside its protocol: calls with a null handle, and     *)
(* my_rwlock_unlock by a thread that holds no access.                      *)
(***************************************************************************)
StrayUnlock(t) == Running /\ held[t] = "none" /\ unlock_entry(t, RWLOCK)

NullCall(t) ==
    /\ Running
    /\ \/ rdlock_entry(t, NULL)
       \/ wrlock_entry(t, NULL)
       \/ unlock_entry(t, NULL)

MainNullCall == my_rwlock_init(NULL) \/ my_rwlock_destroy(NULL)

NextLoose ==
    \/ Next
    \/ (MainNullCall /\ LockOnly)
    \/ \E t \in Threads : (StrayUnlock(t) \/ NullCall(t)) /\ LockOnly

SpecLoose == Init /\ [][NextLoose]_vars

(***************************************************************************)
(* The critical sections statement by statement: the de-registration and   *)
(* the admission of rdlock and wrlock, and the release and the wake-up of  *)
(* unlock, are steps of their own.                                         *)
(***************************************************************************)
\* rwlock->waiting_readers-- after the loop of rdlock.
rdlock_deregister(t) ==
    /\ pc[t] = "rd_admit"
    /\ mutex = {t}
    /\ waiting_readers' = waiting_readers - 1
    /\ pc' = [pc EXCEPT ![t] = "rd_enter"]
    /\ UNCHANGED <<active_readers, waiting_writers, writer_active, monitor, held, arg, rv,
                   main_pc>>

\* rwlock->active_readers++.
rdlock_activate(t) ==
    /\ pc[t] = "rd_enter"
    /\ mutex = {t}
    /\ active_readers' = active_readers + 1
    /\ pc' = [pc EXCEPT ![t] = "rd_unlock"]
    /\ UNCHANGED <<waiting_readers, waiting_writers, writer_active, monitor, held, arg, rv,
                   main_pc>>

\* Variant: wrlock without its waiting_writers--.
wrlock_deregister_skipped(t) ==
    /\ pc[t] = "wr_admit"
    /\ mutex = {t}
    /\ pc' = [pc EXCEPT ![t] = "wr_enter"]
    /\ UNCHANGED <<fields, monitor, held, arg, rv, main_pc>>

\* rwlock->waiting_writers-- after the loop of wrlock.
wrlock_deregister(t) ==
    /\ pc[t] = "wr_admit"
    /\ mutex = {t}
    /\ waiting_writers' = waiting_writers - 1
    /\ pc' = [pc EXCEPT ![t] = "wr_enter"]
    /\ UNCHANGED <<active_readers, waiting_readers, writer_active, monitor, held, arg, rv,
                   main_pc>>

\* rwlock->writer_active = 1.
wrlock_activate(t) ==
    /\ pc[t] = "wr_enter"
    /\ mutex = {t}
    /\ writer_active' = 1
    /\ pc' = [pc EXCEPT ![t] = "wr_unlock"]
    /\ UNCHANGED <<active_readers, waiting_readers, waiting_writers, monitor, held, arg, rv,
                   main_pc>>

\* The tests of the if / else-if of unlock and the assignment of the branch
\* taken.
unlock_release(t) ==
    /\ pc[t] = "un_body"
    /\ mutex = {t}
    /\ IF writer_active # 0
       THEN /\ writer_active' = 0
            /\ pc' = [pc EXCEPT ![t] = "un_wake_w"]
            /\ UNCHANGED active_readers
       ELSE IF active_readers > 0
       THEN /\ active_readers' = active_readers - 1
            /\ pc' = [pc EXCEPT ![t] = "un_wake_r"]
            /\ UNCHANGED writer_active
       ELSE /\ pc' = [pc EXCEPT ![t] = "un_unlock"]
            /\ UNCHANGED <<active_readers, writer_active>>
    /\ UNCHANGED <<waiting_readers, waiting_writers, monitor, held, arg, rv, main_pc>>

\* Variant: the releasing writer wakes every waiting writer.
unlock_wake_by_writer_broadcasts(t) ==
    /\ pc[t] = "un_wake_w"
    /\ mutex = {t}
    /\ IF waiting_writers > 0
       THEN /\ write_cond' \in cond_broadcast(write_cond)
            /\ UNCHANGED read_cond
       ELSE /\ read_cond' \in cond_broadcast(read_cond)
            /\ UNCHANGED write_cond
    /\ pc' = [pc EXCEPT ![t] = "un_unlock"]
    /\ UNCHANGED <<fields, mutex, held, arg, rv, main_pc>>

\* Variant: the releasing writer wakes nobody when no writer waits.
unlock_wake_by_writer_forgets_readers(t) ==
    /\ pc[t] = "un_wake_w"
    /\ mutex = {t}
    /\ IF waiting_writers > 0
       THEN /\ write_cond' \in cond_signal(write_cond)
            /\ UNCHANGED read_cond
       ELSE UNCHANGED <<read_cond, write_cond>>
    /\ pc' = [pc EXCEPT ![t] = "un_unlock"]
    /\ UNCHANGED <<fields, mutex, held, arg, rv, main_pc>>

\* The wake-up in the writer's branch of unlock.
unlock_wake_by_writer(t) ==
    /\ pc[t] = "un_wake_w"
    /\ mutex = {t}
    /\ IF waiting_writers > 0
       THEN /\ write_cond' \in cond_signal(write_cond)
            /\ UNCHANGED read_cond
       ELSE /\ read_cond' \in cond_broadcast(read_cond)
            /\ UNCHANGED write_cond
    /\ pc' = [pc EXCEPT ![t] = "un_unlock"]
    /\ UNCHANGED <<fields, mutex, held, arg, rv, main_pc>>

\* Variant: every releasing reader signals a writer.
unlock_wake_by_reader_always(t) ==
    /\ pc[t] = "un_wake_r"
    /\ mutex = {t}
    /\ write_cond' \in cond_signal(write_cond)
    /\ pc' = [pc EXCEPT ![t] = "un_unlock"]
    /\ UNCHANGED <<fields, mutex, read_cond, held, arg, rv, main_pc>>

\* Variant: the last reader leaves without a signal.
unlock_wake_by_reader_never(t) ==
    /\ pc[t] = "un_wake_r"
    /\ mutex = {t}
    /\ pc' = [pc EXCEPT ![t] = "un_unlock"]
    /\ UNCHANGED <<fields, monitor, held, arg, rv, main_pc>>

\* The wake-up in the reader's branch of unlock.
unlock_wake_by_reader(t) ==
    /\ pc[t] = "un_wake_r"
    /\ mutex = {t}
    /\ IF active_readers = 0 /\ waiting_writers > 0
       THEN write_cond' \in cond_signal(write_cond)
       ELSE UNCHANGED write_cond
    /\ pc' = [pc EXCEPT ![t] = "un_unlock"]
    /\ UNCHANGED <<fields, mutex, read_cond, held, arg, rv, main_pc>>

\* Steps a thread takes while it owns the mutex, one per statement.
StatementStep(t) ==
    \/ rdlock_register(t)
    \/ rdlock_test(t)
    \/ rdlock_deregister(t)
    \/ rdlock_activate(t)
    \/ rdlock_return(t)
    \/ wrlock_register(t)
    \/ wrlock_test(t)
    \/ wrlock_deregister(t)
    \/ wrlock_activate(t)
    \/ wrlock_return(t)
    \/ unlock_release(t)
    \/ unlock_wake_by_writer(t)
    \/ unlock_wake_by_reader(t)
    \/ unlock_return(t)

NextStatements ==
    \/ (MainStep /\ LockOnly)
    \/ \E t \in Threads :
          (AcquireRead(t) \/ AcquireWrite(t) \/ Release(t) \/ StatementStep(t)
              \/ MutexStep(t) \/ spurious_wakeup(t)) /\ LockOnly

SpecStatements == Init /\ [][NextStatements]_vars

(***************************************************************************)
(* Fair scheduling: a thread that owns the mutex keeps running (WF), a     *)
(* thread that asks for the mutex gets it if it is free again and again    *)
(* (SF), and a thread that holds access eventually calls unlock (WF).      *)
(* Nothing forces a thread to ask for access, nor a spurious wake-up.      *)
(***************************************************************************)
Fairness ==
    \A t \in Threads :
        /\ WF_vars(InsideStep(t) /\ LockOnly)
        /\ SF_vars(MutexStep(t) /\ LockOnly)
        /\ WF_vars(Release(t) /\ LockOnly)

FairSpec == Init /\ [][Next]_vars /\ Fairness

\* The threads that ask for write access when a single writer faces readers.
WriterThreads == {1}

NextOneWriter ==
    \/ (MainStep /\ LockOnly)
    \/ \E t \in Threads :
          /\ \/ AcquireRead(t)
             \/ (t \in WriterThreads /\ AcquireWrite(t))
             \/ Release(t)
             \/ LockStep(t)
          /\ LockOnly

FairSpecOneWriter == Init /\ [][NextOneWriter]_vars /\ Fairness

(***************************************************************************)
(* The sorted singly-linked list: Insert, Member, Delete.                  *)
(***************************************************************************)
\* Longest chain of distinct nodes, plus one: a traversal that takes more steps
\* runs in a cycle.
Fuel == Cardinality(Nodes) + 1

\* The nodes reached from head by following ->next, in order.
RECURSIVE chain_from(_, _)
chain_from(n, fuel) ==
    IF n = NIL \/ fuel = 0 THEN <<>> ELSE <<n>> \o chain_from(node_next[n], fuel - 1)

Chain == chain_from(head, Fuel)

\* The keys of the list, in list order.
KeySeq == [i \in 1..Len(Chain) |-> node_data[Chain[i]]]

Range(f) == {f[i] : i \in DOMAIN f}

\* Variant: the scan also steps over a node whose key equals value.
scan_goes_on_over_equal(curr, value) == curr # NIL /\ node_data[curr] <= value

\* The loop condition of Insert and of Delete.
scan_goes_on(curr, value) == curr # NIL /\ node_data[curr] < value

\* The while loop of Insert and of Delete from <<pred, curr>>: the final pred and
\* curr, and whether a node outside the allocated ones was dereferenced or the
\* loop did not end.
RECURSIVE scan(_, _, _, _, _)
scan(pred, curr, value, fuel, bad) ==
    IF scan_goes_on(curr, value)
    THEN IF fuel = 0
         THEN [pred |-> pred, curr |-> curr, bad |-> TRUE]
         ELSE scan(curr, node_next[curr], value, fuel - 1, bad \/ curr \notin allocated)
    ELSE [pred |-> pred, curr |-> curr,
          bad |-> bad \/ (curr # NIL /\ curr \notin allocated)]

list_scan(value) == scan(NIL, head, value, Fuel, FALSE)

\* Variant: Insert also inserts before a node whose key equals value.
insert_needed_on_equal(curr, value) == curr = NIL \/ node_data[curr] >= value

\* The test of Insert after its loop: value is to be inserted before curr.
insert_needed(curr, value) == curr = NIL \/ node_data[curr] > value

\* The then-branch of Insert: temp is the address malloc returned.
insert_splice(pred, curr, value, temp, bad) ==
    /\ temp \in Nodes \ allocated
    /\ allocated' = allocated \cup {temp}
    /\ node_data' = [node_data EXCEPT ![temp] = value]
    /\ IF pred = NIL
       THEN /\ head' = temp
            /\ node_next' = [node_next EXCEPT ![temp] = curr]
       ELSE /\ UNCHANGED head
            /\ node_next' = [node_next EXCEPT ![temp] = curr, ![pred] = temp]
    /\ mem_error' = (mem_error \/ bad \/ (pred # NIL /\ pred \notin allocated))

\* Variant: Delete removes the first node whose key is not below value.
delete_found_first_not_below(curr, value) == curr # NIL

\* The test of Delete after its loop: curr holds value.
delete_found(curr, value) == curr # NIL /\ node_data[curr] = value

\* Variant: Delete always unlinks through head.
delete_unlink_through_head(pred, curr, bad) ==
    /\ head' = node_next[curr]
    /\ allocated' = allocated \ {curr}
    /\ node_data' = [node_data EXCEPT ![curr] = 0]
    /\ node_next' = [node_next EXCEPT ![curr] = NIL]
    /\ mem_error' = (mem_error \/ bad \/ curr \notin allocated)

\* The then-branch of Delete: unlink curr and free it.  The content of the freed
\* node is no longer meaningful.
delete_unlink(pred, curr, bad) ==
    /\ IF pred = NIL
       THEN /\ head' = node_next[curr]
            /\ node_next' = [node_next EXCEPT ![curr] = NIL]
       ELSE /\ UNCHANGED head
            /\ node_next' = [node_next EXCEPT ![pred] = node_next[curr], ![curr] = NIL]
    /\ allocated' = allocated \ {curr}
    /\ node_data' = [node_data EXCEPT ![curr] = 0]
    /\ mem_error' = (mem_error \/ bad \/ curr \notin allocated
                        \/ (pred # NIL /\ pred \notin allocated))

\* Variant: Member reports every value up to the largest key as present.
member_found_any(temp, value) == temp # NIL

\* The test of Member after its loop.
member_found(temp, value) == ~(temp = NIL \/ node_data[temp] > value)

\* The while loop of Member: the final temp and whether a node outside the
\* allocated ones was dereferenced or the loop did not end.
RECURSIVE member_scan(_, _, _, _)
member_scan(temp, value, fuel, bad) ==
    IF temp # NIL /\ node_data[temp] < value
    THEN IF fuel = 0
         THEN [temp |-> temp, bad |-> TRUE]
         ELSE member_scan(node_next[temp], value, fuel - 1, bad \/ temp \notin allocated)
    ELSE [temp |-> temp, bad |-> bad \/ (temp # NIL /\ temp \notin allocated)]

\* Insert(value) as one step, returning r.
Insert(value, r) ==
    LET s == list_scan(value) IN
    IF insert_needed(s.curr, value)
    THEN /\ r = 1
         /\ \E temp \in Nodes \ allocated :
               insert_splice(s.pred, s.curr, value, temp, s.bad)
    ELSE /\ r = 0
         /\ mem_error' = (mem_error \/ s.bad)
         /\ UNCHANGED <<head, node_data, node_next, allocated>>

\* Member(value) as one step, returning r.
Member(value, r) ==
    LET s == member_scan(head, value, Fuel, FALSE) IN
    /\ r = (IF member_found(s.temp, value) THEN 1 ELSE 0)
    /\ mem_error' = (mem_error \/ s.bad)
    /\ UNCHANGED <<head, node_data, node_next, allocated>>

\* Delete(value) as one step, returning r.
Delete(value, r) ==
    LET s == list_scan(value) IN
    IF delete_found(s.curr, value)
    THEN /\ r = 1
         /\ delete_unlink(s.pred, s.curr, s.bad)
    ELSE /\ r = 0
         /\ mem_error' = (mem_error \/ s.bad)
         /\ UNCHANGED <<head, node_data, node_next, allocated>>

\* A single-threaded user that makes one list call after the other.
Called(name, value, r) ==
    /\ last' = [op |-> name, value |-> value, rv |-> r, before |-> KeySeq,
                prior |-> <<last.op, last.value>>]
    /\ tick' = ~tick
    /\ UNCHANGED <<lockVars, driverVars>>

SeqInsert(value) == \E r \in {0, 1} : Insert(value, r) /\ Called("Insert", value, r)

SeqMember(value) == \E r \in {0, 1} : Member(value, r) /\ Called("Member", value, r)

SeqDelete(value) == \E r \in {0, 1} : Delete(value, r) /\ Called("Delete", value, r)

ListNext == \E value \in Keys : SeqInsert(value) \/ SeqMember(value) \/ SeqDelete(value)

ListSpec == Init /\ [][ListNext]_vars

(***************************************************************************)
(* The driver: main and Thread_work.                                       *)
(***************************************************************************)
\* Is_empty(): head == NULL.
Is_empty == head = NIL

\* Variant: the node left in current when the loop of Free_list ends is not
\* freed.
free_last_skipped(current, freed) == freed

\* free(current) after the loop of Free_list.
free_last(current, freed) == freed \cup {current}

\* The loop of Free_list at its test, with the nodes freed so far: the nodes
\* freed when it ends, whether a node was freed twice (twice), whether ->next
\* of a freed node was read (stale), and whether a node that is not allocated
\* was touched or the loop did not end (bad).
RECURSIVE free_walk(_, _, _, _, _)
free_walk(current, following, freed, fuel, flags) ==
    IF following # NIL
    THEN IF fuel = 0
         THEN [freed |-> freed, twice |-> flags.twice, stale |-> flags.stale, bad |-> TRUE]
         ELSE free_walk(following, node_next[following], freed \cup {current}, fuel - 1,
                        [twice |-> flags.twice \/ current \in freed,
                         stale |-> flags.stale \/ following \in freed \cup {current},
                         bad |-> flags.bad \/ {current, following} \ allocated # {}])
    ELSE [freed |-> free_last(current, freed),
          twice |-> flags.twice \/ current \in freed,
          stale |-> flags.stale,
          bad |-> flags.bad \/ current \notin allocated]

\* Free_list from current = head, following = current->next.
free_list_walk ==
    free_walk(head, node_next[head], {}, Fuel,
              [twice |-> FALSE, stale |-> FALSE, bad |-> head \notin allocated])

\* Free_list as one step; the content of a freed node is not kept, and head is
\* not assigned.
Free_list ==
    IF Is_empty
    THEN UNCHANGED heap
    ELSE LET w == free_list_walk IN
         /\ allocated' = allocated \ w.freed
         /\ node_data' = [n \in Nodes |-> IF n \in w.freed THEN 0 ELSE node_data[n]]
         /\ node_next' = [n \in Nodes |-> IF n \in w.freed THEN NIL ELSE node_next[n]]
         /\ mem_error' = (mem_error \/ w.twice \/ w.stale \/ w.bad)
         /\ UNCHANGED head

\* The command line and Get_input.
main_input_of(requests) ==
    /\ main_at = "input"
    /\ thread_count' \in 1..MaxThreadCount
    /\ total_ops' \in 0..MaxTotalOps
    /\ inserts_in_main' \in requests
    /\ main_i' = 0 /\ attempts' = 0
    /\ main_at' = "prepopulate"
    /\ UNCHANGED <<lockVars, listVars, randVars, count_mutex, totals, thread_at, locals>>

main_input == main_input_of(0..MaxInsertsInMain)

\* 2*n in the arithmetic of int: above INT_MAX the product wraps to a negative
\* number in the two's-complement build.
int_twice(n) ==
    IF n < 1073741824 THEN 2 * n
    ELSE (n - 1073741824) + (n - 1073741824) - 1073741824 - 1073741824

\* Variant: the loop goes on until the requested count is reached, with no
\* budget of attempts.
prepopulate_goes_on_without_budget == main_i < inserts_in_main

\* The test of the loop that inserts the initial keys.
prepopulate_goes_on ==
    main_i < inserts_in_main /\ attempts < int_twice(inserts_in_main)

\* One turn of the loop that inserts the initial keys, or its exit, with the
\* keys drawn from values.
main_prepopulate_from(values) ==
    /\ main_at = "prepopulate"
    /\ IF prepopulate_goes_on
       THEN /\ \E key \in values, success \in {0, 1} :
                  /\ Insert(key, success)
                  /\ main_i' = main_i + success
            /\ attempts' = attempts + 1
            /\ UNCHANGED main_at
       ELSE /\ main_at' = "init"
            /\ UNCHANGED <<heap, main_i, attempts>>
    /\ UNCHANGED <<lockVars, last, tick, inputs, randVars, count_mutex, totals, thread_at, locals>>

main_prepopulate == main_prepopulate_from(Keys)

\* pthread_mutex_init(&count_mutex) and my_rwlock_init(&rwlock).
main_init ==
    /\ main_at = "init"
    /\ count_mutex' = {}
    /\ my_rwlock_init(RWLOCK)
    /\ main_at' = "create"
    /\ main_i' = 0
    /\ UNCHANGED <<listVars, inputs, randVars, attempts, totals, thread_at, locals>>

\* One turn of the loop of pthread_create, or its exit; worker main_i + 1 has
\* rank main_i.
main_create ==
    /\ main_at = "create"
    /\ IF main_i < thread_count
       THEN /\ thread_at' = [thread_at EXCEPT ![main_i + 1] = "for"]
            /\ main_i' = main_i + 1
            /\ UNCHANGED main_at
       ELSE /\ main_at' = "join"
            /\ main_i' = 0
            /\ UNCHANGED thread_at
    /\ UNCHANGED <<lockVars, listVars, inputs, randVars, attempts, count_mutex, totals, locals>>

\* Variant: main does not wait for the workers.
main_join_without_waiting ==
    /\ main_at = "join"
    /\ IF main_i < thread_count
       THEN /\ main_i' = main_i + 1
            /\ UNCHANGED main_at
       ELSE /\ main_at' = "report"
            /\ UNCHANGED main_i
    /\ UNCHANGED <<lockVars, listVars, inputs, randVars, attempts, count_mutex, totals, thread_at,
                   locals>>

\* One turn of the loop of pthread_join, or its exit.
main_join ==
    /\ main_at = "join"
    /\ IF main_i < thread_count
       THEN /\ thread_at[main_i + 1] = "exit"
            /\ main_i' = main_i + 1
            /\ UNCHANGED main_at
       ELSE /\ main_at' = "report"
            /\ UNCHANGED main_i
    /\ UNCHANGED <<lockVars, listVars, inputs, randVars, attempts, count_mutex, totals, thread_at,
                   locals>>

\* The report of the totals, then Free_list().
main_free_list ==
    /\ main_at = "report"
    /\ Free_list
    /\ main_at' = "destroy"
    /\ UNCHANGED <<lockVars, last, tick, inputs, randVars, main_i, attempts, count_mutex, totals,
                   thread_at, locals>>

\* my_rwlock_destroy(&rwlock) and pthread_mutex_destroy(&count_mutex).
main_destroy ==
    /\ main_at = "destroy"
    /\ my_rwlock_destroy(RWLOCK)
    /\ main_at' = "done"
    /\ UNCHANGED <<listVars, inputs, randVars, main_i, attempts, count_mutex, totals, thread_at,
                   locals>>

ops_per_thread == total_ops \div thread_count

\* Variant: every operation is made under the read lock.
lock_call_always_read(t, op) == rdlock_entry(t, RWLOCK)

\* The lock function Thread_work calls for an operation of class op.
lock_call(t, op) ==
    IF op = "Member" THEN rdlock_entry(t, RWLOCK) ELSE wrlock_entry(t, RWLOCK)

\* The test of the for loop; in the body, the draw of which_op and of val from
\* values, and the call of the lock function.
thread_iteration(t, values) ==
    /\ thread_at[t] = "for"
    /\ IF work_i[t] < ops_per_thread
       THEN \E op \in Ops, v \in values :
               /\ which_op' = [which_op EXCEPT ![t] = op]
               /\ val' = [val EXCEPT ![t] = v]
               /\ lock_call(t, op)
               /\ thread_at' = [thread_at EXCEPT ![t] = "locking"]
       ELSE /\ thread_at' = [thread_at EXCEPT ![t] = "fold_lock"]
            /\ UNCHANGED <<lockVars, which_op, val>>
    /\ UNCHANGED <<listVars, inputs, randVars, mainVars, count_mutex, totals, work_i, found,
                   my_member_count, my_insert_count, my_delete_count>>

thread_next_op(t) == thread_iteration(t, Keys)

\* The lock function has returned: Member(val), or the loop of Insert(val) or
\* Delete(val).
thread_list_call(t) ==
    /\ thread_at[t] = "locking"
    /\ pc[t] = "idle"
    /\ IF which_op[t] = "Member"
       THEN /\ \E r \in {0, 1} : Member(val[t], r)
            /\ thread_at' = [thread_at EXCEPT ![t] = "unlock"]
            /\ UNCHANGED found
       ELSE /\ found' = [found EXCEPT ![t] = list_scan(val[t])]
            /\ thread_at' = [thread_at EXCEPT ![t] = "modify"]
            /\ UNCHANGED heap
    /\ UNCHANGED <<lockVars, last, tick, inputs, randVars, mainVars, count_mutex, totals, work_i,
                   which_op, val, my_member_count, my_insert_count, my_delete_count>>

\* The if statement that ends Insert(val) or Delete(val).
thread_modify(t) ==
    /\ thread_at[t] = "modify"
    /\ LET s == found[t] IN
       IF which_op[t] = "Insert"
       THEN IF insert_needed(s.curr, val[t])
            THEN \E temp \in Nodes \ allocated :
                    insert_splice(s.pred, s.curr, val[t], temp, s.bad)
            ELSE /\ mem_error' = (mem_error \/ s.bad)
                 /\ UNCHANGED <<head, node_data, node_next, allocated>>
       ELSE IF delete_found(s.curr, val[t])
            THEN delete_unlink(s.pred, s.curr, s.bad)
            ELSE /\ mem_error' = (mem_error \/ s.bad)
                 /\ UNCHANGED <<head, node_data, node_next, allocated>>
    /\ found' = [found EXCEPT ![t] = NoScan]
    /\ thread_at' = [thread_at EXCEPT ![t] = "unlock"]
    /\ UNCHANGED <<lockVars, last, tick, inputs, randVars, mainVars, count_mutex, totals, work_i,
                   which_op, val, my_member_count, my_insert_count, my_delete_count>>

\* The call of my_rwlock_unlock(&rwlock).
thread_unlock(t) ==
    /\ thread_at[t] = "unlock"
    /\ unlock_entry(t, RWLOCK)
    /\ thread_at' = [thread_at EXCEPT ![t] = "unlocking"]
    /\ UNCHANGED <<listVars, inputs, randVars, mainVars, count_mutex, totals, locals>>

Bump(counter, t) == [counter EXCEPT ![t] = counter[t] + 1]

\* my_rwlock_unlock has returned: the local counter of the class, and i++.
thread_count_op(t) ==
    /\ thread_at[t] = "unlocking"
    /\ pc[t] = "idle"
    /\ my_member_count' =
          IF which_op[t] = "Member" THEN Bump(my_member_count, t) ELSE my_member_count
    /\ my_insert_count' =
          IF which_op[t] = "Insert" THEN Bump(my_insert_count, t) ELSE my_insert_count
    /\ my_delete_count' =
          IF which_op[t] = "Delete" THEN Bump(my_delete_count, t) ELSE my_delete_count
    /\ work_i' = Bump(work_i, t)
    /\ thread_at' = [thread_at EXCEPT ![t] = "for"]
    /\ UNCHANGED <<lockVars, listVars, inputs, randVars, mainVars, count_mutex, totals, which_op, val,
                   found>>

\* Variant: the fold-in is made without pthread_mutex_lock(&count_mutex).
thread_fold_lock_skipped(t) ==
    /\ thread_at[t] = "fold_lock"
    /\ thread_at' = [thread_at EXCEPT ![t] = "fold"]
    /\ UNCHANGED <<lockVars, listVars, inputs, randVars, mainVars, count_mutex, totals, locals>>

\* pthread_mutex_lock(&count_mutex).
thread_fold_lock(t) ==
    /\ thread_at[t] = "fold_lock"
    /\ count_mutex = {}
    /\ count_mutex' = {t}
    /\ thread_at' = [thread_at EXCEPT ![t] = "fold"]
    /\ UNCHANGED <<lockVars, listVars, inputs, randVars, mainVars, totals, locals>>

\* Variant: the totals are assigned, not added to.
thread_fold_overwrites(t) ==
    /\ thread_at[t] = "fold"
    /\ member_count' = my_member_count[t]
    /\ insert_count' = my_insert_count[t]
    /\ delete_count' = my_delete_count[t]
    /\ thread_at' = [thread_at EXCEPT ![t] = "fold_unlock"]
    /\ UNCHANGED <<lockVars, listVars, inputs, randVars, mainVars, count_mutex, locals>>

\* The three additions to the totals.
thread_fold(t) ==
    /\ thread_at[t] = "fold"
    /\ member_count' = member_count + my_member_count[t]
    /\ insert_count' = insert_count + my_insert_count[t]
    /\ delete_count' = delete_count + my_delete_count[t]
    /\ thread_at' = [thread_at EXCEPT ![t] = "fold_unlock"]
    /\ UNCHANGED <<lockVars, listVars, inputs, randVars, mainVars, count_mutex, locals>>

\* pthread_mutex_unlock(&count_mutex) and the return of Thread_work.
thread_fold_unlock(t) ==
    /\ thread_at[t] = "fold_unlock"
    /\ count_mutex' = {}
    /\ thread_at' = [thread_at EXCEPT ![t] = "exit"]
    /\ UNCHANGED <<lockVars, listVars, inputs, randVars, mainVars, totals, locals>>

Thread_work(t) ==
    \/ thread_next_op(t)
    \/ thread_list_call(t)
    \/ thread_modify(t)
    \/ thread_unlock(t)
    \/ thread_count_op(t)
    \/ thread_fold_lock(t)
    \/ thread_fold(t)
    \/ thread_fold_unlock(t)

main ==
    \/ main_input
    \/ main_prepopulate
    \/ main_init
    \/ main_create
    \/ main_join
    \/ main_free_list
    \/ main_destroy

DriverNext ==
    \/ main
    \/ \E t \in Threads : Thread_work(t) \/ (LockStep(t) /\ LockOnly)

DriverSpec == Init /\ [][DriverNext]_vars

\* The driver with a key space small enough for the check of its termination.
MaxKeyOfFairRun == 0

KeysOfFairRun == 0..MaxKeyOfFairRun

Thread_work_in_fair_run(t) ==
    \/ thread_iteration(t, KeysOfFairRun)
    \/ thread_list_call(t)
    \/ thread_modify(t)
    \/ thread_unlock(t)
    \/ thread_count_op(t)
    \/ thread_fold_lock(t)
    \/ thread_fold(t)
    \/ thread_fold_unlock(t)

main_in_fair_run ==
    \/ main_input
    \/ main_prepopulate_from(KeysOfFairRun)
    \/ main_init
    \/ main_create
    \/ main_join
    \/ main_free_list
    \/ main_destroy

DriverNextOfFairRun ==
    \/ main_in_fair_run
    \/ \E t \in Threads : Thread_work_in_fair_run(t) \/ (LockStep(t) /\ LockOnly)

\* Fair scheduling of the driver: main and every worker keep running, a thread
\* that keeps finding a mutex free at times obtains it, and pthread_cond_wait is
\* not required to return without a signal.
DriverFairness ==
    /\ WF_vars(main_in_fair_run)
    /\ \A t \in Threads :
          /\ WF_vars(Thread_work_in_fair_run(t))
          /\ SF_vars(thread_fold_lock(t))
          /\ WF_vars(InsideStep(t) /\ LockOnly)
          /\ SF_vars(MutexStep(t) /\ LockOnly)

FairDriverSpec == Init /\ [][DriverNextOfFairRun]_vars /\ DriverFairness

(***************************************************************************)
(* Properties of the lock.                                                 *)
(***************************************************************************)
\* t has incremented waiting_writers and not yet decremented it.
Registered(t) == pc[t] \in {"wr_test", "wr_wait", "wr_admit"}

\* No reader and no writer is active.
Drained == active_readers = 0 /\ writer_active = 0

ReadHolders == {t \in Threads : held[t] = "read"}
WriteHolders == {t \in Threads : held[t] = "write"}

\* C1: under protocol-respecting use, writer_active and active_readers > 0 are
\* never both true, and no thread is in a write section while some thread is in
\* a read section.
MutualExclusion ==
    /\ ~(writer_active # 0 /\ active_readers > 0)
    /\ ~(WriteHolders # {} /\ ReadHolders # {})

\* A writer is in its write section while a reader is blocked in rdlock.
MutualExclusionWitness ==
    \E t, u \in Threads : held[t] = "write" /\ pc[t] = "idle" /\ u \in read_cond

\* C2: under protocol-respecting use at most one thread is between a returned
\* wrlock and its unlock.
SingleWriter == Cardinality(WriteHolders) <= 1

\* A writer is in its write section, admitted while another writer that had been
\* woken up has not yet re-acquired the mutex.
SingleWriterWitness ==
    \E t, u \in Threads :
        /\ held[t] = "write" /\ pc[t] = "idle"
        /\ pc[u] = "wr_wait" /\ u \notin write_cond

\* C3: while some writer is registered as waiting (from its increment of
\* waiting_writers to its admission) no reader is admitted: active_readers is not
\* incremented and no thread enters a read section.
WriterPriority ==
    [][(\E w \in Threads : Registered(w)) =>
          /\ active_readers' <= active_readers
          /\ \A t \in Threads : held'[t] = "read" => held[t] = "read"]_vars

\* One thread holds read access, a writer is blocked in wrlock and a third thread
\* that called rdlock is blocked behind it.
WriterPriorityWitness ==
    \E r, w, x \in Threads :
        /\ held[r] = "read" /\ pc[r] = "idle"
        /\ w \in write_cond
        /\ x \in read_cond /\ x # r

\* C4: a reader that evaluates the rdlock test while writer_active is false and
\* waiting_writers is 0 goes on to its admission without waiting, whatever the
\* value of active_readers.
ReadersShare ==
    [][\A t \in Threads :
          (pc[t] = "rd_test" /\ pc'[t] # "rd_test"
              /\ writer_active = 0 /\ waiting_writers = 0)
          => (pc'[t] = "rd_admit" /\ t \notin read_cond')]_vars

\* Two readers are active and a third one has just passed the test.
ReadersShareWitness ==
    /\ active_readers >= 2
    /\ Cardinality(ReadHolders) >= 2
    /\ \E t \in Threads : pc[t] = "rd_admit"

\* C5: with a single writer thread, under fair scheduling, a writer blocked in
\* wrlock is eventually admitted although readers keep arriving.
WriterNotStarved ==
    \A t \in Threads : (pc[t] = "wr_wait") ~> (held[t] = "write")

\* The writer is blocked behind an active reader while another reader has arrived
\* and is blocked behind the writer.
WriterNotStarvedWitness ==
    \E w, r \in Threads :
        /\ w \in write_cond
        /\ active_readers > 0
        /\ r \in read_cond

\* C6 as stated: under fair scheduling every reader blocked in rdlock is
\* eventually admitted, whatever the other threads do.
ReaderAlwaysAdmitted ==
    \A t \in Threads : (pc[t] = "rd_wait") ~> (held[t] = "read")

\* No thread is inside wrlock or in a write section.
NoWriterInterest ==
    \A t \in Threads :
        /\ pc[t] \notin {"wr_lock", "wr_reg", "wr_test", "wr_wait", "wr_admit", "wr_unlock"}
        /\ held[t] # "write"

\* C6 amended: under fair scheduling a reader blocked in rdlock is eventually
\* admitted provided the writers stop arriving (from some point on no thread is
\* inside wrlock or in a write section).
ReaderAdmittedOnceWritersStop ==
    (<>[]NoWriterInterest) => ReaderAlwaysAdmitted

\* Two readers are blocked in rdlock behind an active writer.
ReaderAdmittedWitness ==
    \E t, u, w \in Threads :
        /\ t # u /\ t \in read_cond /\ u \in read_cond
        /\ held[w] = "write"

\* A step in which t passes from the test of its acquire to its admission.
AdmissionStep(t) ==
    /\ pc[t] \in {"rd_admit", "wr_admit"}
    /\ pc'[t] \in {"rd_unlock", "wr_unlock"}

\* C7 as stated: once the lock has drained while writer w is registered, no
\* other thread is admitted (to read or to write) before w.
WriterFirstAfterDrain ==
    [][\A w \in Threads : (Registered(w) /\ Drained) =>
          \A t \in Threads \ {w} : ~AdmissionStep(t)]_vars

\* C7 amended: once the lock has drained while writer w is registered, any
\* thread admitted before w is a writer, never a reader.
OnlyWritersBeforeWaitingWriter ==
    [][\A w \in Threads : (Registered(w) /\ Drained) =>
          \A t \in Threads \ {w} : AdmissionStep(t) => pc[t] = "wr_admit"]_vars

\* The lock has drained, writer w is registered and still waiting, and another
\* writer has passed the test and is about to be admitted.
OnlyWritersWitness ==
    \E w, t \in Threads :
        /\ t # w /\ pc[w] = "wr_wait" /\ Drained
        /\ pc[t] = "wr_admit"

\* t is executing my_rwlock_unlock.
InUnlock(t) == pc[t] \in {"un_lock", "un_body", "un_unlock"}

\* A step of t in which the if / else-if of unlock is executed.
UnlockBodyStep(t) == pc[t] = "un_body" /\ pc'[t] = "un_unlock"

\* C8: under protocol-respecting use, unlock by the write holder clears
\* writer_active and changes no counter, unlock by a read holder decrements
\* active_readers by 1 and changes no other field, and no step of unlock changes
\* waiting_readers or waiting_writers.
UnlockEffect ==
    [][\A t \in Threads :
          /\ (UnlockBodyStep(t) /\ held[t] = "write") =>
                /\ writer_active' = 0
                /\ UNCHANGED <<active_readers, waiting_readers, waiting_writers>>
          /\ (UnlockBodyStep(t) /\ held[t] = "read") =>
                /\ active_readers' = active_readers - 1
                /\ UNCHANGED <<writer_active, waiting_readers, waiting_writers>>
          /\ (InUnlock(t) /\ pc'[t] # pc[t]) =>
                UNCHANGED <<waiting_readers, waiting_writers>>]_vars

\* A writer has just executed the body of unlock while another writer is
\* registered and a reader is registered as waiting.
UnlockEffectWitness ==
    \E t \in Threads :
        /\ pc[t] = "un_unlock" /\ held[t] = "write"
        /\ waiting_writers > 0 /\ waiting_readers > 0

\* C9: unlock by a thread that holds no access changes none of the four fields
\* and returns 0, in every state of the lock.
StrayUnlockInert ==
    [][\A t \in Threads :
          /\ (UnlockBodyStep(t) /\ held[t] = "none") => UNCHANGED fields
          /\ (pc[t] = "un_unlock" /\ pc'[t] = "idle") => rv'[t] = <<0>>]_vars

\* C10: a call with a null handle returns -1 at once (the caller is not left
\* inside the function) and changes nothing of the lock or of any thread; a call
\* of rdlock, wrlock or unlock with a valid handle returns 0 when it returns.
NullHandle ==
    /\ [](\A c \in Callers :
            /\ arg[c] = NULL => rv[c] = <<-1>>
            /\ (arg[c] = NULL /\ c \in Threads) => pc[c] = "idle"
            /\ (arg[c] = RWLOCK /\ c \in Threads) => rv[c] \in {<<>>, <<0>>})
    /\ [][\A c \in Callers :
            (arg'[c] = NULL /\ <<arg[c], rv[c]>> # <<arg'[c], rv'[c]>>) =>
                UNCHANGED <<fields, monitor, pc, held, main_pc>>]_vars

\* Main and a worker have made a call with a null handle while another worker
\* holds the lock and a third one has completed a call with the valid handle.
NullHandleWitness ==
    \E t, u, v \in Threads :
        /\ arg[Main] = NULL /\ rv[Main] = <<-1>>
        /\ arg[t] = NULL /\ rv[t] = <<-1>>
        /\ u # t /\ held[u] # "none"
        /\ v # t /\ arg[v] = RWLOCK /\ rv[v] = <<0>>

\* t makes its first call while no other thread has called anything yet.
FirstCaller(t) ==
    /\ rv[t] = <<>>
    /\ \A u \in Threads \ {t} : pc[u] = "idle" /\ rv[u] = <<>>

\* C11: my_rwlock_init on a valid handle leaves all three counters 0 and
\* writer_active 0 whatever the memory held before, and the first rdlock or wrlock
\* after it never waits.
InitLeavesIdle ==
    /\ [][(main_pc = "init" /\ main_pc' = "run") =>
            (active_readers' = 0 /\ waiting_readers' = 0 /\ waiting_writers' = 0
                /\ writer_active' = 0 /\ rv'[Main] = <<0>>)]_vars
    /\ [](\A t \in Threads : FirstCaller(t) => pc[t] \notin {"rd_wait", "wr_wait"})

\* After init the first caller, a writer, has passed the wrlock test.
InitLeavesIdleWitness ==
    /\ main_pc = "run"
    /\ \E t \in Threads : FirstCaller(t) /\ pc[t] = "wr_admit"

(***************************************************************************)
(* Properties of the list.                                                 *)
(***************************************************************************)
\* The chain from head is finite and acyclic, made of allocated nodes, and its
\* keys are strictly ascending.
ListOK ==
    /\ Len(Chain) <= Cardinality(Nodes)
    /\ \A i, j \in 1..Len(Chain) : i < j => Chain[i] # Chain[j]
    /\ \A i \in 1..Len(Chain) : Chain[i] \in allocated
    /\ \A i, j \in 1..Len(KeySeq) : i < j => KeySeq[i] < KeySeq[j]
    /\ ~mem_error

\* The sequence q without the entries equal to v.
Without(q, v) == SelectSeq(q, LAMBDA x : x # v)

\* C12: from the empty list, after every completed Insert or Delete of a
\* sequential caller the keys reachable from head are strictly ascending without
\* duplicates and the chain is finite and acyclic.
OrderedSetInvariant == ListOK

\* The list holds at least two keys after a Delete that removed a key.
OrderedSetWitness == Len(KeySeq) >= 2 /\ last.op = "Delete" /\ last.rv = 1

\* C13: Insert(value) returns 1 exactly when value was absent and then the keys are
\* the former keys plus value; it returns 0 exactly when value was present and
\* then the list is unchanged; the other keys keep their order in both cases.
InsertContract ==
    [][(tick' # tick /\ last'.op = "Insert") =>
          LET v == last'.value
              r == last'.rv
          IN /\ r \in {0, 1}
             /\ r = 1 <=> v \notin Range(KeySeq)
             /\ r = 1 => Range(KeySeq') = Range(KeySeq) \cup {v}
             /\ r = 0 => UNCHANGED heap
             /\ Without(KeySeq', v) = Without(KeySeq, v)
             /\ Len(KeySeq') = Cardinality(Range(KeySeq'))]_vars

\* A key was inserted between two keys already present.
InsertContractWitness ==
    /\ last.op = "Insert" /\ last.rv = 1 /\ Len(KeySeq) = 3
    /\ KeySeq[2] = last.value

\* C14: Delete(value) returns 1 exactly when value was present and then the keys
\* are the former keys minus value, the others in order; it returns 0 exactly
\* when value was absent and then the list is unchanged.
DeleteContract ==
    [][(tick' # tick /\ last'.op = "Delete") =>
          LET v == last'.value
              r == last'.rv
          IN /\ r \in {0, 1}
             /\ r = 1 <=> v \in Range(KeySeq)
             /\ r = 1 => KeySeq' = Without(KeySeq, v)
             /\ r = 0 => UNCHANGED heap]_vars

\* The middle key of three was deleted.
DeleteContractWitness ==
    /\ last.op = "Delete" /\ last.rv = 1 /\ Len(last.before) = 3
    /\ last.before[2] = last.value

\* C15: Member(value) returns 1 if and only if value is a key of the list, and
\* changes neither head nor any node.
MemberContract ==
    [][(tick' # tick /\ last'.op = "Member") =>
          /\ last'.rv = 1 <=> last'.value \in Range(KeySeq)
          /\ last'.rv \in {0, 1}
          /\ UNCHANGED heap]_vars

\* Member was asked for a value absent from a non-empty list whose keys are all
\* larger.
MemberContractWitness ==
    /\ last.op = "Member" /\ last.rv = 0 /\ Len(KeySeq) >= 1
    /\ \A i \in 1..Len(KeySeq) : last.value < KeySeq[i]

\* C16: when Insert(k) was called with k absent and the next call is Insert(k),
\* the first returned 1, the second returns 0 and leaves the list as the first
\* left it.
DuplicateInsertIdempotent ==
    [][(tick' # tick /\ last.op = "Insert" /\ last.value \notin Range(last.before)
            /\ last'.op = "Insert" /\ last'.value = last.value) =>
          /\ last.rv = 1
          /\ last'.rv = 0
          /\ UNCHANGED heap]_vars

\* Insert(k) has just returned 0 right after the Insert(k) that put k in.
DuplicateInsertWitness ==
    /\ last.op = "Insert" /\ last.rv = 0
    /\ last.prior = <<"Insert", last.value>>
    /\ Len(KeySeq) >= 2

\* C17 as stated: for every list and every key k, Insert(k) followed by
\* Delete(k) leaves the key sequence that preceded the Insert.
RoundTrip ==
    [][(tick' # tick /\ last.op = "Insert"
            /\ last'.op = "Delete" /\ last'.value = last.value) =>
          KeySeq' = last.before]_vars

\* C17 amended: for every list and every key k absent from it, Insert(k)
\* followed by Delete(k) leaves the key sequence that preceded the Insert.
RoundTripOfAbsentKey ==
    [][(tick' # tick /\ last.op = "Insert" /\ last.value \notin Range(last.before)
            /\ last'.op = "Delete" /\ last'.value = last.value) =>
          KeySeq' = last.before]_vars

\* Delete(k) has just undone an Insert(k) that had put k between two keys.
RoundTripWitness ==
    /\ last.op = "Delete" /\ last.rv = 1
    /\ last.prior = <<"Insert", last.value>>
    /\ Len(KeySeq) = 2 /\ KeySeq[1] < last.value /\ last.value < KeySeq[2]

(***************************************************************************)
(* Properties of the driver.                                               *)
(***************************************************************************)
Workers == 1..thread_count

RECURSIVE Sum(_, _)
Sum(counter, S) ==
    IF S = {} THEN 0
    ELSE LET t == CHOOSE u \in S : TRUE IN counter[t] + Sum(counter, S \ {t})

\* The workers whose local counters have been added to the totals.
Folded == {t \in Workers : thread_at[t] \in {"fold_unlock", "exit"}}

AllJoined == main_at \in {"report", "destroy", "done"}

\* C18: each total is at every moment the sum of the local counters of the
\* workers that have folded in; once all workers are joined that is the sum over
\* all workers, and member_count + insert_count + delete_count equals
\* thread_count * (total_ops / thread_count) with integer division.
Conservation ==
    /\ member_count = Sum(my_member_count, Folded)
    /\ insert_count = Sum(my_insert_count, Folded)
    /\ delete_count = Sum(my_delete_count, Folded)
    /\ AllJoined =>
          /\ Folded = Workers
          /\ member_count + insert_count + delete_count
                = thread_count * (total_ops \div thread_count)

\* Two workers were joined after a run in which one operation was dropped by
\* the division, and both classes of writes were counted.
ConservationWitness ==
    /\ AllJoined
    /\ thread_count = 2 /\ total_ops = 3
    /\ member_count + insert_count + delete_count = 2
    /\ insert_count = 1 /\ delete_count = 1

\* C19: from the pre-populated list on, in every interleaving of the workers the
\* list is a finite chain of allocated nodes with strictly ascending keys after
\* every completed operation and after all workers are joined, and no worker
\* touches a freed node.
SetIntegrity == main_at \notin {"destroy", "done"} => ListOK

\* All workers are joined after an Insert by one worker and a Delete by the
\* other on a pre-populated list that now holds two keys.
SetIntegrityWitness ==
    /\ main_at = "report"
    /\ thread_count = 2 /\ inserts_in_main = 1
    /\ insert_count = 1 /\ delete_count = 1
    /\ Len(KeySeq) = 2

\* Worker t is between the return of its lock call and the return of its list
\* call.
InListCall(t) ==
    \/ thread_at[t] = "locking" /\ pc[t] = "idle"
    \/ thread_at[t] = "modify"

\* A step in which t calls my_rwlock_rdlock or my_rwlock_wrlock.
AcquireCall(t) == pc[t] = "idle" /\ pc'[t] \in {"rd_lock", "wr_lock"}

\* A step in which t calls my_rwlock_unlock.
ReleaseCall(t) == pc[t] = "idle" /\ pc'[t] = "un_lock"

\* C20: a worker executes Member holding read access and Insert and Delete
\* holding write access; it acquires only while it holds nothing, releases only
\* what it holds, right after its list call, and holds nothing when it leaves
\* the loop; no Insert or Delete overlaps another list operation.
LockBracketing ==
    /\ [](\A t \in Threads :
            /\ InListCall(t) =>
                  held[t] = (IF which_op[t] = "Member" THEN "read" ELSE "write")
            /\ thread_at[t] \in {"unborn", "for", "fold_lock", "fold", "fold_unlock", "exit"}
                  => held[t] = "none" /\ pc[t] = "idle"
            /\ \A u \in Threads \ {t} :
                  InListCall(t) /\ InListCall(u) =>
                      which_op[t] = "Member" /\ which_op[u] = "Member")
    /\ [][\A t \in Threads :
            /\ AcquireCall(t) => held[t] = "none" /\ thread_at[t] = "for"
            /\ ReleaseCall(t) => held[t] # "none" /\ thread_at[t] = "unlock"]_vars

\* A worker is inside Insert or Delete while the other worker waits for the
\* lock.
LockBracketingWitness ==
    \E t \in Threads :
        /\ thread_at[t] = "modify"
        /\ \E u \in Threads \ {t} : pc[u] \in {"rd_wait", "wr_wait"}

(***************************************************************************)
(* Properties of the critical sections of the lock.                        *)
(***************************************************************************)
\* A step in which t leaves the wait loop of rdlock, or executes one of the two
\* statements that follow it.
ReaderAdmission(t) ==
    \/ pc[t] # "rd_admit" /\ pc'[t] = "rd_admit"
    \/ pc[t] = "rd_admit" /\ pc'[t] = "rd_enter"
    \/ pc[t] = "rd_enter" /\ pc'[t] = "rd_unlock"

\* The same for wrlock.
WriterAdmission(t) ==
    \/ pc[t] # "wr_admit" /\ pc'[t] = "wr_admit"
    \/ pc[t] = "wr_admit" /\ pc'[t] = "wr_enter"
    \/ pc[t] = "wr_enter" /\ pc'[t] = "wr_unlock"

\* C21: with pthread_cond_wait free to return without a signal, a reader leaves
\* its wait loop and increments active_readers only while writer_active is false
\* and no writer is registered as waiting, and a writer leaves its wait loop and
\* sets writer_active only while active_readers = 0 and writer_active is false.
AdmissionPreconditions ==
    [][\A t \in Threads :
          /\ ReaderAdmission(t) => writer_active = 0 /\ waiting_writers = 0
          /\ WriterAdmission(t) => active_readers = 0 /\ writer_active = 0]_vars

\* A writer has left its wait loop while a reader whose pthread_cond_wait was
\* ended has not yet re-acquired the mutex.
AdmissionPreconditionsWitness ==
    \E t, u \in Threads :
        /\ pc[t] = "wr_enter"
        /\ pc[u] = "rd_wait" /\ u \notin read_cond

\* What pthread_cond_signal does to the threads blocked on a condition: one of
\* them is unblocked when there is one.
OneUnblocked(before, after) ==
    /\ after \subseteq before
    /\ Cardinality(before \ after) = (IF before = {} THEN 0 ELSE 1)

\* The step of t that executes the wake-up of the writer's branch of unlock.
WakeByWriter(t) == pc[t] = "un_wake_w" /\ pc'[t] = "un_unlock"

\* The step of t that executes the wake-up of the reader's branch of unlock.
WakeByReader(t) == pc[t] = "un_wake_r" /\ pc'[t] = "un_unlock"

\* The step of t that executes the tests of unlock and the assignment.
ReleaseStep(t) == pc[t] = "un_body" /\ pc'[t] # "un_body"

\* C22: unlock by the active writer takes the writer's branch; with writers
\* registered as waiting it sends one signal on write_cond, which unblocks one
\* blocked writer and no reader; with none it broadcasts on read_cond, after
\* which no reader is blocked.
WriterWakePolicy ==
    [][\A t \in Threads :
          /\ (ReleaseStep(t) /\ held[t] = "write") => pc'[t] = "un_wake_w"
          /\ (WakeByWriter(t) /\ waiting_writers > 0) =>
                OneUnblocked(write_cond, write_cond') /\ UNCHANGED read_cond
          /\ (WakeByWriter(t) /\ waiting_writers = 0) =>
                read_cond' = {} /\ UNCHANGED write_cond]_vars

\* A writer has just sent its signal with two writers blocked: one of them is
\* unblocked, the other still blocked.
WriterWakePolicyWitness ==
    \E t, u \in Threads :
        /\ pc[t] = "un_unlock" /\ held[t] = "write"
        /\ pc[u] = "wr_wait" /\ u \notin write_cond
        /\ write_cond # {}

\* C23: unlock by a reader takes the reader's branch; when it brings
\* active_readers to 0 while writers are registered as waiting it sends one
\* signal on write_cond, which unblocks one blocked writer; otherwise it
\* unblocks no thread.
ReaderWakePolicy ==
    [][\A t \in Threads :
          /\ (ReleaseStep(t) /\ held[t] = "read") =>
                pc'[t] = "un_wake_r" /\ active_readers' = active_readers - 1
          /\ (WakeByReader(t) /\ active_readers = 0 /\ waiting_writers > 0) =>
                OneUnblocked(write_cond, write_cond') /\ UNCHANGED read_cond
          /\ (WakeByReader(t) /\ ~(active_readers = 0 /\ waiting_writers > 0)) =>
                UNCHANGED <<read_cond, write_cond>>]_vars

\* A reader has left while another reader is still active, and the waiting
\* writer is still blocked.
ReaderWakePolicyWitness ==
    \E t \in Threads :
        /\ pc[t] = "un_unlock" /\ held[t] = "read"
        /\ active_readers > 0
        /\ write_cond # {}

\* C24: whatever rdlock, wrlock and unlock calls the threads make, unlock calls
\* by threads that hold nothing included, active_readers, waiting_readers and
\* waiting_writers are never negative and writer_active is 0 or 1.
NonNegative ==
    /\ active_readers >= 0
    /\ waiting_readers >= 0
    /\ waiting_writers >= 0
    /\ writer_active \in {0, 1}

\* A thread that holds nothing has executed the body of unlock on a lock without
\* active reader or writer, while another thread is registered as waiting.
NonNegativeWitness ==
    \E t \in Threads :
        /\ pc[t] = "un_unlock" /\ held[t] = "none"
        /\ Drained
        /\ waiting_readers + waiting_writers > 0

\* The positions at which the next statement of t reads or writes a field of
\* the lock.
AccessPositions ==
    {"rd_reg", "rd_test", "rd_admit", "rd_enter", "wr_reg", "wr_test", "wr_admit",
     "wr_enter", "un_body", "un_wake_w", "un_wake_r"}

\* C25: after init, a thread about to read or write one of the four fields in
\* rdlock, wrlock or unlock owns the internal mutex, every change of a field is
\* made by the owner of the mutex, and each of the three functions returns with
\* the mutex released by the caller.
MonitorDiscipline ==
    /\ [](\A t \in Threads : pc[t] \in AccessPositions => mutex = {t})
    /\ [][(main_pc = "run" /\ fields' # fields) =>
              \E t \in Threads : mutex = {t} /\ pc'[t] # pc[t]]_vars
    /\ [][\A t \in Threads :
              (pc[t] # "idle" /\ pc'[t] = "idle") => mutex = {t} /\ mutex' = {}]_vars

\* A reader is at its loop test inside the mutex while another thread stands at
\* the pthread_mutex_lock of unlock.
MonitorDisciplineWitness ==
    \E t, u \in Threads :
        /\ pc[t] = "rd_test" /\ mutex = {t}
        /\ pc[u] = "un_lock"

\* t has incremented waiting_writers and not yet decremented it, and is not
\* blocked in pthread_cond_wait.
RunnableWriter(t) == pc[t] \in {"wr_test", "wr_wait", "wr_admit"} /\ t \notin write_cond

\* C26 as stated: in every reachable state with writer_active false and
\* waiting_writers = 0 no reader is blocked on read_cond.
NoReaderAsleepWhenOpen ==
    (writer_active = 0 /\ waiting_writers = 0) => read_cond = {}

\* C26 amended: in every reachable state in which the internal mutex is free,
\* writer_active is false and waiting_writers = 0, no reader is blocked on
\* read_cond.
NoReaderAsleepWhenOpenAndFree ==
    (mutex = {} /\ writer_active = 0 /\ waiting_writers = 0) => read_cond = {}

\* The mutex is free and no writer is active or waiting, while a reader that
\* had to wait was unblocked and has not yet re-acquired the mutex.
NoReaderAsleepWitness ==
    /\ mutex = {} /\ writer_active = 0 /\ waiting_writers = 0
    /\ \E t \in Threads : pc[t] = "rd_wait" /\ t \notin read_cond

\* C27 as stated: in every reachable state with active_readers = 0,
\* writer_active false and waiting_writers > 0, some registered writer is not
\* blocked.
NoWriterAsleepWhenIdle ==
    (active_readers = 0 /\ writer_active = 0 /\ waiting_writers > 0) =>
        \E t \in Threads : RunnableWriter(t)

\* C27 amended: in every reachable state in which the internal mutex is free,
\* active_readers = 0, writer_active is false and waiting_writers > 0, some
\* registered writer is not blocked.
NoWriterAsleepWhenIdleAndFree ==
    (mutex = {} /\ active_readers = 0 /\ writer_active = 0 /\ waiting_writers > 0) =>
        \E t \in Threads : RunnableWriter(t)

\* The mutex is free and the lock has no active reader or writer; of two
\* waiting writers one was unblocked and the other is still blocked.
NoWriterAsleepWitness ==
    /\ mutex = {} /\ Drained /\ waiting_writers = 2
    /\ write_cond # {}
    /\ \E t \in Threads : pc[t] = "wr_wait" /\ t \notin write_cond

\* The threads between a returned rdlock, or wrlock, and the release made by
\* their unlock.
ActiveReaderThreads ==
    {t \in Threads : held[t] = "read" /\ pc[t] \in {"idle", "un_lock", "un_body"}}

ActiveWriterThreads ==
    {t \in Threads : held[t] = "write" /\ pc[t] \in {"idle", "un_lock", "un_body"}}

\* The threads that have registered inside rdlock, or wrlock, and are not yet
\* admitted.
WaitingReaderThreads == {t \in Threads : pc[t] \in {"rd_test", "rd_wait", "rd_admit"}}

WaitingWriterThreads == {t \in Threads : pc[t] \in {"wr_test", "wr_wait", "wr_admit"}}

\* C29: under protocol-respecting use, whenever the internal mutex is free each
\* counter equals the number of threads in the matching population, and
\* writer_active is true exactly when one thread is in its write section.
CountersMatchPopulations ==
    mutex = {} =>
        /\ active_readers = Cardinality(ActiveReaderThreads)
        /\ writer_active \in {0, 1}
        /\ writer_active = Cardinality(ActiveWriterThreads)
        /\ waiting_readers = Cardinality(WaitingReaderThreads)
        /\ waiting_writers = Cardinality(WaitingWriterThreads)

\* The mutex is free with two threads in their read sections and a writer
\* registered as waiting.
CountersMatchWitness ==
    /\ mutex = {}
    /\ Cardinality(ActiveReaderThreads) = 2
    /\ Cardinality(WaitingWriterThreads) = 1

\* The workers that were created and have not returned from Thread_work.
Unfinished == {t \in Threads : thread_at[t] \notin {"unborn", "exit"}}

\* t can take a step without a spurious return of pthread_cond_wait.
Runnable(t) ==
    ENABLED (Thread_work(t) \/ ((InsideStep(t) \/ MutexStep(t)) /\ LockOnly))

\* C28: under fair scheduling main reaches its end, so every worker has made its
\* total_ops / thread_count operations and its fold-in and was joined; and in no
\* reachable state are all unfinished workers blocked.
BenchmarkTerminates ==
    /\ [](Unfinished # {} => \E t \in Unfinished : Runnable(t))
    /\ <>(main_at = "done")
    /\ [](main_at = "done" =>
            \A t \in Workers : thread_at[t] = "exit" /\ work_i[t] = ops_per_thread)

\* main has ended a run of two workers that made one operation each.
BenchmarkTerminatesWitness ==
    /\ main_at = "done"
    /\ thread_count = 2
    /\ \A t \in Workers : work_i[t] = 1

\* The step of main that executes Free_list, or my_rwlock_destroy.
TeardownStep ==
    \/ main_at = "report" /\ main_at' = "destroy"
    \/ main_at = "destroy" /\ main_at' = "done"

\* C30: while main reads its input and pre-populates the list the lock is not
\* yet initialised and no worker exists, and no worker exists before the lock is
\* initialised; Free_list and my_rwlock_destroy are executed only when every
\* worker has returned and was joined, with all four fields of the lock at 0
\* and no thread inside a lock function.
LifecycleOrder ==
    /\ [](main_at \in {"input", "prepopulate"} => main_pc = "init")
    /\ [](main_pc = "init" => \A t \in Threads : thread_at[t] = "unborn")
    /\ [][TeardownStep =>
              /\ main_i = thread_count
              /\ \A t \in Workers : thread_at[t] = "exit"
              /\ active_readers = 0 /\ writer_active = 0
              /\ waiting_readers = 0 /\ waiting_writers = 0
              /\ mutex = {} /\ Quiescent]_vars

\* main has destroyed the lock after a run of two workers on a pre-populated
\* list in which a write was made.
LifecycleOrderWitness ==
    /\ main_at = "done" /\ main_pc = "destroyed"
    /\ thread_count = 2 /\ inserts_in_main = 1
    /\ insert_count + delete_count >= 1

\* The positions of a worker from its pthread_mutex_lock(&count_mutex) on.
FoldPositions == {"fold", "fold_unlock", "exit"}

\* C31: a worker takes count_mutex only after its last list operation, while it
\* holds no access to the read-write lock and is outside its functions; having
\* taken it, it never comes back to take it again, and it returns only after
\* releasing it; the three totals change only in a step of the owner of
\* count_mutex.
AggregationDiscipline ==
    /\ [](\A t \in Threads :
            /\ t \in count_mutex =>
                  /\ thread_at[t] \in {"fold", "fold_unlock"}
                  /\ held[t] = "none" /\ pc[t] = "idle"
            /\ thread_at[t] \in {"fold", "fold_unlock"} => count_mutex = {t}
            /\ thread_at[t] \in FoldPositions \cup {"fold_lock"} =>
                  work_i[t] = ops_per_thread)
    /\ [][\A t \in Threads :
              /\ thread_at[t] \in FoldPositions => thread_at'[t] \in FoldPositions
              /\ (thread_at[t] # "exit" /\ thread_at'[t] = "exit") =>
                    count_mutex = {t} /\ count_mutex' = {}]_vars
    /\ [][totals' # totals =>
              \E t \in Threads : count_mutex = {t} /\ thread_at[t] = "fold"
                                      /\ thread_at'[t] = "fold_unlock"]_vars

\* A worker owns count_mutex with a counted operation to add, while the other
\* worker is in its write section.
AggregationWitness ==
    \E t, u \in Threads :
        /\ thread_at[t] = "fold" /\ count_mutex = {t}
        /\ my_member_count[t] + my_insert_count[t] + my_delete_count[t] > 0
        /\ held[u] = "write" /\ pc[u] = "idle"

\* Largest small count of initial keys asked for in the runs of the loop that
\* inserts them; MaxKey + 1 keys exist, so the largest request cannot be met.
MaxRequested == 4

\* The requested counts: the small ones, and the ends of the range of int where
\* 2*inserts_in_main leaves it.
Requests == (0..MaxRequested) \cup {1073741824, 2147483647}

\* main up to the end of the loop that inserts the initial keys.
PrepopulateNext == main_input_of(Requests) \/ main_prepopulate

PrepopulateSpec == Init /\ [][PrepopulateNext]_vars /\ WF_vars(PrepopulateNext)

\* C32: for every requested count n >= 0 the loop makes at most 2*n attempts and
\* ends; it makes no attempt once n keys are in; the count it reports is the
\* number of keys of the list and is at most n, and it is below n only when the
\* budget is spent (or 2*n is not an int).
PrepopulationBounded ==
    /\ [](main_at \in {"prepopulate", "init"} =>
            /\ attempts - inserts_in_main <= inserts_in_main
            /\ main_i <= inserts_in_main
            /\ main_i <= attempts
            /\ main_i = Len(KeySeq) /\ ListOK /\ ~mem_error)
    /\ [](main_at = "init" =>
            \/ main_i = inserts_in_main
            \/ attempts = int_twice(inserts_in_main)
            \/ int_twice(inserts_in_main) < 0 /\ attempts = 0)
    /\ [][attempts' # attempts =>
              /\ main_i < inserts_in_main
              /\ attempts' = attempts + 1]_vars
    /\ <>(main_at = "init")

\* The loop has ended on its budget with some keys in, fewer than requested.
PrepopulationWitness ==
    /\ main_at = "init"
    /\ 0 < main_i /\ main_i < inserts_in_main
    /\ inserts_in_main = MaxRequested
    /\ attempts = 2 * inserts_in_main

\* Insert(value) when its malloc returns NULL.  The scan is the usual one; for a
\* value that is in the list no node is asked for and the call is the usual
\* one.  Otherwise temp->data = value writes through the null pointer: the
\* process is stopped by the fault before any node or head is written, and no
\* result reaches the caller (r is whatever the caller would have read).
Insert_malloc_fails(value, r) ==
    LET s == list_scan(value) IN
    IF insert_needed(s.curr, value)
    THEN /\ r \in {0, 1}
         /\ mem_error' = TRUE
         /\ UNCHANGED <<head, node_data, node_next, allocated>>
    ELSE FALSE

SeqInsert_malloc_fails(value) ==
    \E r \in {0, 1} : Insert_malloc_fails(value, r)
                        /\ Called("Insert, malloc fails", value, r)

\* The sequential calls of the list, each Insert with or without memory for its
\* node; a process stopped by a memory fault makes no further call.
MallocFailureNext ==
    \/ ~mem_error /\ ListNext
    \/ ~mem_error /\ \E value \in Keys : SeqInsert_malloc_fails(value)

MallocFailureSpec == Init /\ [][MallocFailureNext]_vars

\* C33: an Insert whose allocation fails returns its failure result, leaves the
\* list as it was and does not stop the process.
AllocationFailureSurfaced ==
    last.op = "Insert, malloc fails" =>
        /\ last.rv = 0
        /\ KeySeq = last.before
        /\ ~mem_error

\* my_rwlock_init(h) on a valid handle when pthread_mutex_init or one of the two
\* pthread_cond_init calls fails: their results are not read, the four fields
\* are zeroed and 0 is returned.  What a thread does with the lock afterwards
\* is outside the model (no step is enabled from "run_without_monitor").
my_rwlock_init_monitor_fails(h) ==
    /\ main_pc = "init"
    /\ h # NULL
    /\ mutex' = {} /\ read_cond' = {} /\ write_cond' = {}
    /\ active_readers' = 0
    /\ waiting_readers' = 0
    /\ waiting_writers' = 0
    /\ writer_active' = 0
    /\ ReturnAtOnce(Main, h, 0)
    /\ main_pc' = "run_without_monitor"
    /\ UNCHANGED <<pc, held>>

\* The calls of the lock, in and outside its protocol, where the creation of
\* the monitor by my_rwlock_init succeeds or fails.
NextInitFailure ==
    \/ NextLoose
    \/ (my_rwlock_init_monitor_fails(RWLOCK) /\ LockOnly)

SpecInitFailure == InitAnyMemory /\ [][NextInitFailure]_vars

\* C34: my_rwlock_init returns -1 when the mutex or a condition variable could
\* not be created, and with a valid handle it returns -1 in that case only.
InitFailureReported ==
    /\ main_pc = "run_without_monitor" => rv[Main] = <<-1>>
    /\ (rv[Main] = <<-1>> /\ arg[Main] # NULL) => main_pc = "run_without_monitor"

\* The rank pthread_create passes to worker t.
my_rank(t) == t - 1

\* One second passes.
clock_tick ==
    /\ now < MaxElapsed
    /\ now' = now + 1
    /\ UNCHANGED <<lockVars, listVars, inputs, mainVars, count_mutex, totals, thread_at,
                   locals, seed, rand_value, rand_key, draws>>

\* unsigned seed = my_rank + time(NULL), the first statement of Thread_work.
thread_seed(t) ==
    /\ seed[t] = <<>>
    /\ seed' = [seed EXCEPT ![t] = to_unsigned(my_rank(t) + now)]
    /\ UNCHANGED <<lockVars, listVars, inputs, mainVars, count_mutex, totals, thread_at,
                   locals, now, rand_value, rand_key, draws>>

\* The workers start, each at its own moment.
SeedNext == clock_tick \/ \E t \in Threads : thread_seed(t)

SeedSpec == Init /\ [][SeedNext]_vars

\* C35: two workers that have started have different seeds.
SeedsUnique ==
    \A t, u \in Threads :
        (t # u /\ seed[t] # <<>> /\ seed[u] # <<>>) => seed[t] # seed[u]

\* Free_list called by the sequential user of the list, as its last call.
SeqFree_list == Free_list /\ Called("Free_list", 0, 0)

Free_listNext ==
    \/ last.op # "Free_list" /\ ListNext
    \/ last.op # "Free_list" /\ SeqFree_list

Free_listSpec == Init /\ [][Free_listNext]_vars

\* C36: after Free_list head is NULL and Is_empty() is true.
EmptyAfterFree_list == last.op = "Free_list" => Is_empty

\* C37: Free_list frees every node of the list, each once, reads no node it has
\* freed, and leaves no node allocated.
Free_listReleasesAll ==
    [][(tick' # tick /\ last'.op = "Free_list") =>
          /\ ~Is_empty =>
                /\ free_list_walk.freed = Range(Chain)
                /\ ~free_list_walk.twice
                /\ ~free_list_walk.stale
                /\ ~free_list_walk.bad
          /\ allocated' = {}
          /\ ~mem_error']_vars

\* Free_list has been called on a list of three nodes.
Free_listWitness ==
    last.op = "Free_list" /\ Len(last.before) = 3 /\ allocated = {}

MAX_KEY == 100000000

RAND_MULTIPLIER == 1103515245

RAND_INCREMENT == 12345

\* *seed * 1103515245 + 12345 in unsigned arithmetic (modulo 2^32), on the two
\* halves of *seed: the products of the high half of either factor with the
\* high half of the other vanish modulo 2^32, and the cross products count
\* modulo 2^16.
lcg_step(s) ==
    LET lowpart == s[2] * low(RAND_MULTIPLIER) + RAND_INCREMENT
        cross == low(s[1] * low(RAND_MULTIPLIER)) + low(s[2] * high(RAND_MULTIPLIER))
    IN  <<low(high(lowpart) + cross), low(lowpart)>>

\* Variant: my_rand returns *seed / 65536 without the reduction modulo 32768.
rand_result_unreduced(s) == s[1]

\* (*seed / 65536) % 32768.
rand_result(s) == s[1] % 32768

\* The halves of the seeds my_rand is started from: the ends and the middle of
\* the range of 16 bits.
HalfSamples == {0, 1, 2, 32767, 32768, 65534, 65535}

\* main with any value in its seed.
InitAnySeed ==
    /\ active_readers = 0 /\ waiting_readers = 0 /\ waiting_writers = 0
    /\ writer_active = 0
    /\ InitRest
    /\ seed \in {[StartSeeds EXCEPT ![Main] = s] : s \in HalfSamples \X HalfSamples}

\* key = my_rand(&seed) % MAX_KEY by caller c.
my_rand(c) ==
    /\ draws < MaxDraws
    /\ seed[c] # <<>>
    /\ seed' = [seed EXCEPT ![c] = lcg_step(seed[c])]
    /\ rand_value' = rand_result(seed'[c])
    /\ rand_key' = rand_value' % MAX_KEY
    /\ draws' = draws + 1
    /\ UNCHANGED <<lockVars, listVars, inputs, mainVars, count_mutex, totals, thread_at,
                   locals, now>>

RandNext == my_rand(Main)

RandSpec == InitAnySeed /\ [][RandNext]_vars

\* C38: whatever the seed, my_rand leaves a seed of 32 bits and returns a value
\* in [0, 32767]; the key made of it is that value, so every key is in
\* [0, 32767], below MAX_KEY.
KeyRange ==
    /\ seed[Main] \in Halves \X Halves
    /\ rand_value \in 0..32767
    /\ rand_key = rand_value
    /\ rand_key < MAX_KEY

\* my_rand has been called MaxDraws times and its last result comes from a seed
\* whose top bit is set, so that the reduction modulo 32768 changed it.
KeyRangeWitness ==
    /\ draws = MaxDraws
    /\ seed[Main][1] >= 32768
    /\ rand_value = seed[Main][1] - 32768
    /\ rand_value > 16384

====
